---------------------------- MODULE Spec2Model ----------------------------
(***************************************************************************)
(* Verification model of preprocessing/prepare_data.py: the index parser,  *)
(* the schema gate, the blacklist filter, the chunk partition and the      *)
(* chunk orchestrator (sequential loop and process pool).                  *)
(*                                                                         *)
(* Python strings are modelled as sequences of one-character strings, so   *)
(* that split, strip, lower and the substring test are computed and not    *)
(* assumed.  A dict is a function from its keys to its values.             *)
(***************************************************************************)
EXTENDS Integers, Sequences, FiniteSets, TLC

-----------------------------------------------------------------------------
(* Bounds of the model.                                                    *)

\* longest list handed to chunks() besides the test's list of ten
MaxLen == 4
\* largest chunk size tried by the unit calls of chunks()
MaxN == 5
\* most key/value pairs of a generated index line
MaxPairs == 3
\* longest text over the small alphabet handed to is_blacklisted()
MaxTextLen == 3
\* longest blacklist entry over the small alphabet
MaxEntryLen == 2
\* most index files found by one run of main()
MaxDocs == 2
\* largest chunk size of a run of main()
MaxChunkSize == 2
\* most pool workers of a run of main()
MaxCpu == 2

-----------------------------------------------------------------------------
(* String literals of the program and of its tests.                        *)

S_BATCHKLASSE ==
    <<"B", "A", "T", "C", "H", "K", "L", "A", "S", "S", "E">>
S_BATCHCONTENT ==
    <<"B", "A", "T", "C", "H", "C", "O", "N", "T", "E", "N", "T">>
S_BatchIDKey ==
    <<"{", "B", "a", "t", "c", "h", " ", "I", "D", "}">>
S_DocumentIDKey ==
    <<"{", "D", "o", "c", "u", "m", "e", "n", "t", " ", "I", "D", "}">>
S_docType ==
    <<"d", "o", "c", "T", "y", "p", "e">>
S_pageCount ==
    <<"{", "p", "a", "g", "e", "C", "o", "u", "n", "t", "}">>
S_text ==
    <<"t", "e", "x", "t">>
\* keys and values of the tests' index line (test_prepare_data.py, setUp)
T_BatchID ==
    <<"{", "B", "a", "t", "c", "h", "I", "D", "}">>
T_DocumentID ==
    <<"{", "D", "o", "c", "u", "m", "e", "n", "t", "I", "D", "}">>
T_zipname ==
    <<"z", "i", "p", "n", "a", "m", "e">>
T_filename ==
    <<"f", "i", "l", "e", "n", "a", "m", "e">>
T_Batch_001 ==
    <<"B", "a", "t", "c", "h", "_", "0", "0", "1">>
T_Doc_00001 ==
    <<"D", "o", "c", "_", "0", "0", "0", "0", "1">>
T_bill ==
    <<"b", "i", "l", "l">>
T_5 ==
    <<"5">>
\* trailing fields: a path with a separator, and one without
P_TrailingPath ==
    <<"B", "a", "t", "c", "h", "_", "0", "0", "2", "\\", "D", "o", "c", "_", "0", "0", "0", "0", "7", ".", "t", "i", "f">>
P_NoSeparator ==
    <<"D", "o", "c", "_", "0", "0", "0", "0", "7", ".", "t", "i", "f">>
\* the blacklist of main()
B_blacklisted ==
    <<"b", "l", "a", "c", "k", "l", "i", "s", "t", "e", "d", "@", "e", "x", "a", "m", "p", "l", "e", ".", "c", "o", "m">>
B_spamuser ==
    <<"s", "p", "a", "m", "u", "s", "e", "r", "@", "e", "x", "a", "m", "p", "l", "e", ".", "o", "r", "g">>
B_mustermann ==
    <<"m", "a", "x", ".", "m", "u", "s", "t", "e", "r", "m", "a", "n", "n", "@", "e", "x", "a", "m", "p", "l", "e", ".", "c", "o", "m", ",">>
\* texts of test_is_blacklisted, and one that differs from an entry in case only
X_ContactBlacklisted ==
    <<"C", "o", "n", "t", "a", "c", "t", " ", "m", "e", " ", "a", "t", " ", "b", "l", "a", "c", "k", "l", "i", "s", "t", "e", "d", "@", "e", "x", "a", "m", "p", "l", "e", ".", "c", "o", "m">>
X_ContactAllowed ==
    <<"C", "o", "n", "t", "a", "c", "t", " ", "m", "e", " ", "a", "t", " ", "a", "l", "l", "o", "w", "e", "d", "@", "e", "x", "a", "m", "p", "l", "e", ".", "c", "o", "m">>
X_ContactUpper ==
    <<"M", "a", "i", "l", " ", "S", "P", "A", "M", "U", "S", "E", "R", "@", "E", "x", "a", "m", "p", "l", "e", ".", "o", "r", "g">>

-----------------------------------------------------------------------------
(* Python's str and list operations.                                       *)

Whitespace == {" ", "\t", "\n", "\r"}

UpperLetters ==
    <<"A", "B", "C", "D", "E", "F", "G", "H", "I", "J", "K", "L", "M",
      "N", "O", "P", "Q", "R", "S", "T", "U", "V", "W", "X", "Y", "Z">>
LowerLetters ==
    <<"a", "b", "c", "d", "e", "f", "g", "h", "i", "j", "k", "l", "m",
      "n", "o", "p", "q", "r", "s", "t", "u", "v", "w", "x", "y", "z">>

Min(a, b) == IF a <= b THEN a ELSE b

\* lst[i:j] for 0 <= i (Python's slice clamps j to the length)
Slice(lst, i, j) == SubSeq(lst, i + 1, Min(j, Len(lst)))

\* one character of str.lower()
LowerChar(c) ==
    IF \E k \in DOMAIN UpperLetters : UpperLetters[k] = c
    THEN LowerLetters[CHOOSE k \in DOMAIN UpperLetters : UpperLetters[k] = c]
    ELSE c

\* s.lower()
Lower(s) == [k \in DOMAIN s |-> LowerChar(s[k])]

\* s.strip(chars): the characters of the set are removed at both ends
Strip(s, chars) ==
    LET keep == {k \in DOMAIN s : s[k] \notin chars}
    IN  IF keep = {} THEN <<>>
        ELSE SubSeq(s, CHOOSE k \in keep : \A m \in keep : k <= m,
                       CHOOSE k \in keep : \A m \in keep : m <= k)

\* s.replace(c, ""): every occurrence of the character is removed
RemoveChar(s, c) == SelectSeq(s, LAMBDA x : x # c)

\* s.split(sep) for a one-character separator: always at least one part
RECURSIVE Split(_, _)
Split(s, sep) ==
    IF \A k \in DOMAIN s : s[k] # sep THEN <<s>>
    ELSE LET p == CHOOSE k \in DOMAIN s :
                      s[k] = sep /\ \A m \in 1..(k - 1) : s[m] # sep
         IN  <<SubSeq(s, 1, p - 1)>> \o Split(SubSeq(s, p + 1, Len(s)), sep)

\* sub in s
Contains(s, sub) ==
    \E p \in 0..(Len(s) - Len(sub)) : SubSeq(s, p + 1, p + Len(sub)) = sub

\* sep.join(parts) for a one-character separator
RECURSIVE Join(_, _)
Join(parts, sep) ==
    IF parts = <<>> THEN <<>>
    ELSE IF Len(parts) = 1 THEN parts[1]
    ELSE parts[1] \o <<sep>> \o Join(Tail(parts), sep)

\* "".join(seqs)
RECURSIVE Concat(_)
Concat(seqs) == IF seqs = <<>> THEN <<>> ELSE Head(seqs) \o Concat(Tail(seqs))

\* d[k] = v on a dict
Put(d, k, v) == (k :> v) @@ d

EmptyDict == <<>>

-----------------------------------------------------------------------------
(* create_dummy_data.py: the writer of an index line.                      *)

\* ",".join(['"' + i + '"' for i in index_content])
index_content_str(index_content) ==
    Join([k \in DOMAIN index_content |-> <<"\"">> \o index_content[k] \o <<"\"">>], ",")

-----------------------------------------------------------------------------
(* prepare_data.py: the index parser.  A call that raises is the record    *)
(* [raised |-> TRUE]; a file is [readable, content].                       *)

\* index_file_path.replace("\n", "").split("\\")[-2]; IndexError without a separator
get_batch_id(index_file_path) ==
    LET parts == Split(RemoveChar(index_file_path, "\n"), "\\")
    IN  IF Len(parts) < 2 THEN [raised |-> TRUE, value |-> <<>>]
        ELSE [raised |-> FALSE, value |-> parts[Len(parts) - 1]]

\* index_file_path.replace("\n", "").split("\\")[-1].split(".")[0]
get_doc_id(index_file_path) ==
    LET parts == Split(RemoveChar(index_file_path, "\n"), "\\")
    IN  [raised |-> FALSE, value |-> Split(parts[Len(parts)], ".")[1]]

\* items = [item.strip().strip('"') for item in content.split(",")]
ItemsOf(content) ==
    LET raw == Split(Strip(content, Whitespace), ",")
    IN  [k \in DOMAIN raw |-> Strip(Strip(raw[k], Whitespace), {"\""})]

\* for i in range(2, len(items[:-1]), 2): data[items[i]] = items[i + 1]
\* (i is the 0-based index; i + 1 < len(items) holds for every i of the range)
RECURSIVE PairsFrom(_, _, _)
PairsFrom(items, i, data) ==
    IF i >= Len(items) - 1 THEN data
    ELSE PairsFrom(items, i + 2,
                   Put(data, items[i + 1],
                       IF i + 1 < Len(items) THEN items[i + 2] ELSE <<>>))

\* parse_index_file that returns the pairs read so far when the ids cannot be
\* derived from the trailing field
parse_index_file_keeping_pairs(index_file) ==
    IF ~index_file.readable THEN EmptyDict
    ELSE
    LET items == ItemsOf(index_file.content)
        last == items[Len(items)]
        batch_id == get_batch_id(last)
        doc_id == get_doc_id(last)
    IN  IF Len(items) < 2 THEN EmptyDict
        ELSE LET data == PairsFrom(items, 2,
                             Put(Put(EmptyDict, S_BATCHKLASSE, items[1]),
                                 S_BATCHCONTENT, items[2]))
             IN  IF S_BatchIDKey \notin DOMAIN data /\ last # <<>> /\ ~batch_id.raised
                 THEN Put(Put(data, S_BatchIDKey, batch_id.value),
                          S_DocumentIDKey, doc_id.value)
                 ELSE data

\* parse_index_file: every exception of the body ends in the empty dict
parse_index_file(index_file) ==
    IF ~index_file.readable THEN EmptyDict
    ELSE
    LET items == ItemsOf(index_file.content)
        last == items[Len(items)]
        \* batch_id and doc_id are bound only in the else branch
        bound == last # <<>>
        batch_id == get_batch_id(last)
        doc_id == get_doc_id(last)
    IN  IF bound /\ (batch_id.raised \/ doc_id.raised) THEN EmptyDict
        ELSE IF Len(items) < 2 THEN EmptyDict
        ELSE LET data == PairsFrom(items, 2,
                             Put(Put(EmptyDict, S_BATCHKLASSE, items[1]),
                                 S_BATCHCONTENT, items[2]))
             IN  IF S_BatchIDKey \notin DOMAIN data
                 THEN IF ~bound THEN EmptyDict
                      ELSE Put(Put(data, S_BatchIDKey, batch_id.value),
                               S_DocumentIDKey, doc_id.value)
                 ELSE data

expected_columns ==
    {S_BATCHKLASSE, S_BATCHCONTENT, S_BatchIDKey, S_DocumentIDKey, S_docType, S_pageCount}

\* is_expected_format that only rejects the empty record of a failed parse
is_expected_format_nonempty(data) == DOMAIN data # {}

\* is_expected_format: no expected column is missing from the keys
is_expected_format(data) ==
    LET missing_columns == expected_columns \ DOMAIN data
    IN  missing_columns = {}

\* read_text_file: the content, or "" when reading raises
read_text_file(text_file) ==
    IF text_file.readable THEN text_file.content ELSE <<>>

\* is_blacklisted without email.lower(): the entry is compared as written
is_blacklisted_entry_as_written(text, blacklist_emails) ==
    LET text_lower == Lower(text)
    IN  \E email \in blacklist_emails : Contains(text_lower, email)

\* is_blacklisted: some lowered entry occurs in the lowered text
is_blacklisted(text, blacklist_emails) ==
    LET text_lower == Lower(text)
    IN  \E email \in blacklist_emails : Contains(text_lower, Lower(email))

\* chunks: lst[i : i + n] for i in range(0, len(lst), n)
RECURSIVE chunks_from(_, _, _)
chunks_from(lst, n, i) ==
    IF i >= Len(lst) THEN <<>>
    ELSE <<Slice(lst, i, i + n)>> \o chunks_from(lst, n, i + n)

\* chunks that stops before a short last chunk: range(0, len(lst) - n + 1, n)
chunks_full_only(lst, n) == chunks_from(SubSeq(lst, 1, (Len(lst) \div n) * n), n, 0)

chunks(lst, n) == chunks_from(lst, n, 0)

-----------------------------------------------------------------------------
(* Python's re: a pattern is a list of alternatives in the order the        *)
(* backtracking matcher tries them, an alternative a list of items.  An     *)
(* item is \b, or a character set with a repetition {min,max} (max = -1:    *)
(* no upper limit) that is greedy or lazy.                                  *)

Digits == {"0", "1", "2", "3", "4", "5", "6", "7", "8", "9"}

\* \w of a str pattern: letters, digits and the underscore
WordChars ==
    {UpperLetters[k] : k \in DOMAIN UpperLetters}
        \cup {LowerLetters[k] : k \in DOMAIN LowerLetters}
        \cup {"ä", "ö", "ü", "ß", "Ä", "Ö", "Ü"} \cup Digits \cup {"_"}

WordBoundary == [kind |-> "b", set |-> {}, min |-> 0, max |-> 0, greedy |-> TRUE]
Chars(set, min, max, greedy) ==
    [kind |-> "chars", set |-> set, min |-> min, max |-> max, greedy |-> greedy]
Literal(c) == Chars({c}, 1, 1, TRUE)

\* \b at position pos of s (pos characters lie before it)
AtBoundary(s, pos) ==
    LET before == pos >= 1 /\ s[pos] \in WordChars
        after == pos < Len(s) /\ s[pos + 1] \in WordChars
    IN  before # after

\* the number of characters from position pos on that lie in the set, up to max
RunLength(s, pos, set, max) ==
    LET limit == IF max = -1 THEN Len(s) - pos ELSE Min(max, Len(s) - pos)
        stops == {n \in 0..limit : n = limit \/ s[pos + n + 1] \notin set}
    IN  CHOOSE n \in stops : \A m \in stops : n <= m

\* the end of the match of items[k..] at pos that backtracking finds first,
\* or -1 when there is none
RECURSIVE match_items(_, _, _, _)
match_items(items, k, s, pos) ==
    IF k > Len(items) THEN pos
    ELSE LET item == items[k]
         IN  IF item.kind = "b"
             THEN IF AtBoundary(s, pos) THEN match_items(items, k + 1, s, pos) ELSE -1
             ELSE LET run == RunLength(s, pos, item.set, item.max)
                      ends == {<<n, match_items(items, k + 1, s, pos + n)>> :
                                  n \in item.min..run}
                      fits == {e \in ends : e[2] # -1}
                  IN  IF fits = {} THEN -1
                      ELSE IF item.greedy
                      THEN (CHOOSE e \in fits : \A f \in fits : f[1] <= e[1])[2]
                      ELSE (CHOOSE e \in fits : \A f \in fits : e[1] <= f[1])[2]

\* pattern.match(s, pos): the end of the match of the first alternative that
\* matches at pos, or -1
RECURSIVE match_from(_, _, _, _)
match_from(pattern, a, s, pos) ==
    IF a > Len(pattern) THEN -1
    ELSE LET end == match_items(pattern[a], 1, s, pos)
         IN  IF end # -1 THEN end ELSE match_from(pattern, a + 1, s, pos)

match_at(pattern, s, pos) == match_from(pattern, 1, s, pos)

\* the matches of the pattern at every position of s: <<start, end>>
\* (no pattern of the program matches the empty string)
all_matches(pattern, s) ==
    {m \in {<<p, match_at(pattern, s, p)>> : p \in 0..(Len(s) - 1)} : m[2] > m[1]}

\* the scan of finditer from pos: the leftmost match, then on from its end
RECURSIVE scan(_, _)
scan(matches, pos) ==
    LET later == {m \in matches : m[1] >= pos}
    IN  IF later = {} THEN <<>>
        ELSE LET first == CHOOSE m \in later : \A n \in later : m[1] <= n[1]
             IN  <<first>> \o scan(matches, first[2])

\* pattern.finditer(s): the spans <<start, end>> of the non-overlapping
\* matches, leftmost first
finditer(pattern, s) == scan(all_matches(pattern, s), 0)

\* s with every span replaced by repl, the spans being ordered and disjoint
RECURSIVE replace_spans(_, _, _, _)
replace_spans(s, spans, repl, pos) ==
    IF spans = <<>> THEN SubSeq(s, pos + 1, Len(s))
    ELSE SubSeq(s, pos + 1, Head(spans)[1]) \o repl
             \o replace_spans(s, Tail(spans), repl, Head(spans)[2])

\* pattern.sub(repl, s)
sub(pattern, repl, s) == replace_spans(s, finditer(pattern, s), repl, 0)

-----------------------------------------------------------------------------
(* annonymization.py: the substitution patterns.                            *)

EmailChars == WordChars \cup {".", "-"}

\* [-.\s]
Separators == {"-", "."} \cup Whitespace

\* re.compile(r"\b[\w.-]+?@[\w.-]+\.\w+?\b")
email_pattern ==
    << <<WordBoundary, Chars(EmailChars, 1, -1, FALSE), Literal("@"),
         Chars(EmailChars, 1, -1, TRUE), Literal("."), Chars(WordChars, 1, -1, FALSE),
         WordBoundary>> >>

\* \d{1,4}[-.\s]?\d{1,4}[-.\s]?\d{1,9}\b
PhoneNumberItems ==
    <<Chars(Digits, 1, 4, TRUE), Chars(Separators, 0, 1, TRUE),
      Chars(Digits, 1, 4, TRUE), Chars(Separators, 0, 1, TRUE),
      Chars(Digits, 1, 9, TRUE), WordBoundary>>

\* re.compile(r"\b(?:\+?\d{1,3}[-.\s]?|\(\d{1,4}\)\s?)?\d{1,4}[-.\s]?\d{1,4}[-.\s]?\d{1,9}\b"):
\* the optional group is tried with its first branch, then its second, then left out
phone_pattern ==
    << <<WordBoundary, Chars({"+"}, 0, 1, TRUE), Chars(Digits, 1, 3, TRUE),
         Chars(Separators, 0, 1, TRUE)>> \o PhoneNumberItems,
       <<WordBoundary, Literal("("), Chars(Digits, 1, 4, TRUE), Literal(")"),
         Chars(Whitespace, 0, 1, TRUE)>> \o PhoneNumberItems,
       <<WordBoundary>> \o PhoneNumberItems >>

N_EMAIL_PATTERN ==
    <<"E", "M", "A", "I", "L", "_", "P", "A", "T", "T", "E", "R", "N">>
N_PHONE_PATTERN ==
    <<"P", "H", "O", "N", "E", "_", "P", "A", "T", "T", "E", "R", "N">>

\* regex_substitutions with the phone pattern first
regex_substitutions_phone_first ==
    <<[pattern_name |-> N_PHONE_PATTERN, pattern |-> phone_pattern],
      [pattern_name |-> N_EMAIL_PATTERN, pattern |-> email_pattern]>>

regex_substitutions ==
    <<[pattern_name |-> N_EMAIL_PATTERN, pattern |-> email_pattern],
      [pattern_name |-> N_PHONE_PATTERN, pattern |-> phone_pattern]>>

-----------------------------------------------------------------------------
(* prepare_data.py: the redaction steps.                                    *)

R_REDACTED_PHRASE ==
    <<"[", "R", "E", "D", "A", "C", "T", "E", "D", "_", "P", "H", "R", "A", "S", "E", "]">>
R_REDACTED ==
    <<"[", "R", "E", "D", "A", "C", "T", "E", "D", "]">>

\* f"[REDACTED_{pattern_name}]"
Sentinel(pattern_name) ==
    <<"[", "R", "E", "D", "A", "C", "T", "E", "D", "_">> \o pattern_name \o <<"]">>

\* anonymize_text, the loop over regex_substitutions: the text after each
\* substitution, with the name of the pattern applied
RECURSIVE pii_steps(_, _)
pii_steps(substitutions, text) ==
    IF substitutions = <<>> THEN <<>>
    ELSE LET step == Head(substitutions)
             replaced == sub(step.pattern, Sentinel(step.pattern_name), text)
         IN  <<[pattern_name |-> step.pattern_name, before |-> text, text |-> replaced]>>
                 \o pii_steps(Tail(substitutions), replaced)

\* the text when the loop over regex_substitutions is over
pii_substitution(text) ==
    LET steps == pii_steps(regex_substitutions, text)
    IN  IF steps = <<>> THEN text ELSE steps[Len(steps)].text

\* the elements of a set of integers in increasing order
Sorted(S) ==
    [j \in 1..Cardinality(S) |-> CHOOSE k \in S : Cardinality({m \in S : m < k}) = j - 1]

\* the tokenizer of nlp: a run of word characters is a token, every other
\* character that is not whitespace is a token, a run of whitespace is a token
\* except for one space that follows another token, which is the whitespace_
\* of that token.  The texts of the tokens with their whitespace_ add up to
\* the text.  A token is [text, whitespace_, idx], idx its offset in the text.
CharKind(c) ==
    IF c \in WordChars THEN "word" ELSE IF c \in Whitespace THEN "space" ELSE "other"

TrailingSpace(s, k) ==
    k \in 2..Len(s) /\ s[k] = " " /\ s[k - 1] \notin Whitespace

TokenStart(s, k) ==
    /\ ~TrailingSpace(s, k)
    /\ \/ k = 1
       \/ TrailingSpace(s, k - 1)
       \/ CharKind(s[k]) = "other"
       \/ CharKind(s[k]) # CharKind(s[k - 1])

nlp(text) ==
    LET starts == Sorted({k \in 1..Len(text) : TokenStart(text, k)})
        next(j) == IF j < Len(starts) THEN starts[j + 1] ELSE Len(text) + 1
        last(j) == IF TrailingSpace(text, next(j) - 1) THEN next(j) - 2 ELSE next(j) - 1
    IN  [j \in 1..Len(starts) |->
            [text |-> SubSeq(text, starts[j], last(j)),
             whitespace_ |-> SubSeq(text, last(j) + 1, next(j) - 1),
             idx |-> starts[j] - 1]]

\* token.text in the place of token.text_with_ws
text_without_ws(token) == token.text

\* token.text_with_ws
text_with_ws(token) == token.text \o token.whitespace_

\* doc[start:end].text: from the first token to the last, without the
\* whitespace_ of the last
span_text(doc, start, end) ==
    Concat([j \in 1..(end - start) |->
               IF j < end - start THEN text_with_ws(doc[start + j])
               ELSE doc[start + j].text])

C_SehrGeehrte ==
    <<"S", "e", "h", "r", " ", "g", "e", "e", "h", "r", "t", "e", " ", "D", "a", "m", "e", "n", " ", "u", "n", "d", " ", "H", "e", "r", "r", "e", "n">>
C_MitFreundlichen ==
    <<"M", "i", "t", " ", "f", "r", "e", "u", "n", "d", "l", "i", "c", "h", "e", "n", " ", "G", "r", "ü", "ß", "e", "n">>
C_BesteGruesse ==
    <<"B", "e", "s", "t", "e", " ", "G", "r", "ü", "ß", "e">>
C_LiebeKollegen ==
    <<"L", "i", "e", "b", "e", " ", "K", "o", "l", "l", "e", "g", "i", "n", "n", "e", "n", " ", "u", "n", "d", " ", "K", "o", "l", "l", "e", "g", "e", "n">>

common_phrases == <<C_SehrGeehrte, C_MitFreundlichen, C_BesteGruesse, C_LiebeKollegen>>

\* patterns = [[{"LOWER": token.lower_} for token in nlp(text)] for text in common_phrases]
patterns ==
    [p \in DOMAIN common_phrases |->
        LET doc == nlp(common_phrases[p]) IN [j \in DOMAIN doc |-> Lower(doc[j].text)]]

\* matcher(doc): the token spans <<start, end>> whose lowered tokens are those
\* of a pattern
matcher(doc) ==
    {<<start, start + Len(patterns[p])>> : <<start, p>> \in
        {<<start, p>> \in (0..Len(doc)) \X DOMAIN patterns :
            /\ start + Len(patterns[p]) <= Len(doc)
            /\ \A j \in DOMAIN patterns[p] : Lower(doc[start + j].text) = patterns[p][j]}}

\* spacy.util.filter_spans: the longest span first, the earlier of two spans of
\* one length first; a span is kept when it shares no token with a kept one
RECURSIVE filter_spans(_)
filter_spans(spans) ==
    IF spans = {} THEN {}
    ELSE LET first == CHOOSE a \in spans : \A b \in spans :
                          \/ a[2] - a[1] > b[2] - b[1]
                          \/ a[2] - a[1] = b[2] - b[1] /\ a[1] <= b[1]
             apart == {b \in spans : b[2] <= first[1] \/ first[2] <= b[1]}
         IN  {first} \cup filter_spans(apart)

\* the spans of a set without common token, by their start
SpansInOrder(spans) ==
    LET order == Sorted({a[1] : a \in spans})
    IN  [j \in DOMAIN order |-> CHOOSE a \in spans : a[1] = order[j]]

\* re.compile(re.escape(literal)).sub(repl, s): every occurrence of the literal
\* in s, leftmost first, is replaced
RECURSIVE literal_spans(_, _, _)
literal_spans(s, literal, pos) ==
    LET starts == {p \in pos..(Len(s) - Len(literal)) :
                      SubSeq(s, p + 1, p + Len(literal)) = literal}
    IN  IF starts = {} \/ literal = <<>> THEN <<>>
        ELSE LET start == CHOOSE p \in starts : \A q \in starts : p <= q
             IN  << <<start, start + Len(literal)>> >>
                     \o literal_spans(s, literal, start + Len(literal))

sub_literal(literal, repl, s) == replace_spans(s, literal_spans(s, literal, 0), repl, 0)

\* remove_common_phrases, the loop over spans: the text of each span of doc is
\* replaced wherever it occurs in the text as it is by then
RECURSIVE replace_span_texts(_, _, _)
replace_span_texts(doc, spans, text) ==
    IF spans = <<>> THEN text
    ELSE replace_span_texts(doc, Tail(spans),
             sub_literal(span_text(doc, Head(spans)[1], Head(spans)[2]),
                         R_REDACTED_PHRASE, text))

remove_common_phrases(text) ==
    LET doc == nlp(text)
        matches == matcher(doc)
        spans == SpansInOrder(filter_spans(matches))
    IN  replace_span_texts(doc, spans, text)

\* the entity kinds of the recognizer; "" for a token outside every entity
EntityKinds == {"", "PER", "ORG", "LOC", "MISC"}

\* anonymize_text that redacts persons only
entity_redaction_persons_only(doc, ent_type_) ==
    Concat([j \in DOMAIN doc |->
               IF ent_type_[j] \in {"PER"} THEN R_REDACTED ELSE text_with_ws(doc[j])])

\* anonymize_text, the loop over the tokens of doc; ent_type_[j] is the kind
\* the recognizer gives to token j
entity_redaction(doc, ent_type_) ==
    Concat([j \in DOMAIN doc |->
               IF ent_type_[j] \in {"PER", "ORG", "LOC"} THEN R_REDACTED
               ELSE text_with_ws(doc[j])])

\* the recognizer of the model de_core_news_md on the texts of this model: the
\* names of the tests' text
de_core_news_md(doc) ==
    [j \in DOMAIN doc |->
        IF doc[j].text \in {<<"M", "a", "x">>,
                            <<"M", "u", "s", "t", "e", "r", "m", "a", "n", "n">>}
        THEN "PER"
        ELSE IF doc[j].text = <<"B", "e", "r", "l", "i", "n">> THEN "LOC"
        ELSE ""]

\* anonymize_text, given the kinds ent_type_ the recognizer finds for the
\* tokens of the substituted text
anonymize_text_with(text, ent_type_) ==
    entity_redaction(nlp(pii_substitution(text)), ent_type_)

anonymize_text(text) ==
    anonymize_text_with(text, de_core_news_md(nlp(pii_substitution(text))))

\* Blacklist of main()
blacklist_emails == {B_blacklisted, B_spamuser, B_mustermann}

\* One iteration of the loop of process_index_files on document doc:
\*   doc.index_file = [readable, content], doc.text_file = [exists, readable,
\*   content], doc.fault = the call of the iteration that the environment makes
\*   raise ("none", "is_blacklisted", "remove_common_phrases", "anonymize_text");
\*   an unreadable file makes open() raise inside the function that reads it.
\* The result names the way the iteration ends (outcome: "appended", or the
\* continue of the format check, the continue of the blacklist, or the except
\* clause), the row appended to data_list, the call that raised, if any
\* (parse_index_file and read_text_file catch and log their own exceptions),
\* and the calls made in their order, each with the text it is given.
Called(fn, arg) == [fn |-> fn, arg |-> arg]

\* the calls up to the text: parse, format check and, with a text file, the read
CallsBeforeText(doc, read) ==
    <<Called("parse_index_file", <<>>), Called("is_expected_format", <<>>)>>
        \o (IF read THEN <<Called("read_text_file", <<>>)>> ELSE <<>>)

\* the calls of the redaction: the phrases, then inside anonymize_text the
\* substitutions and the loop over the tokens; a call that raises is the last
RedactionCalls(text, fault) ==
    <<Called("remove_common_phrases", text)>>
        \o (IF fault = "remove_common_phrases" THEN <<>>
            ELSE <<Called("pii_substitution", remove_common_phrases(text))>>
                \o (IF fault = "anonymize_text" THEN <<>>
                    ELSE <<Called("entity_redaction",
                                  pii_substitution(remove_common_phrases(text)))>>))

\* loop_body with the blacklist check after the redaction, on the redacted text
loop_body_redacting_first(doc, blacklist) ==
    LET data == parse_index_file(doc.index_file)
        parse_raised == IF DOMAIN data = {} THEN "parse_index_file" ELSE "none"
        skip(o, e, c) == [outcome |-> o, row |-> EmptyDict, raised |-> e, calls |-> c]
    IN  IF ~is_expected_format(data)
        THEN skip("format", parse_raised, CallsBeforeText(doc, FALSE))
        ELSE IF ~doc.text_file.exists
        THEN [outcome |-> "appended", row |-> Put(data, S_text, <<>>), raised |-> "none",
              calls |-> CallsBeforeText(doc, FALSE)]
        ELSE LET text == read_text_file(doc.text_file)
                 read_raised == IF doc.text_file.readable THEN "none" ELSE "read_text_file"
                 redacted == anonymize_text(remove_common_phrases(text))
                 before == CallsBeforeText(doc, TRUE) \o RedactionCalls(text, doc.fault)
                 checked == before \o <<Called("is_blacklisted", redacted)>>
             IN  IF doc.fault \in {"remove_common_phrases", "anonymize_text"}
                 THEN skip("exception", doc.fault, before)
                 ELSE IF doc.fault = "is_blacklisted"
                 THEN skip("exception", doc.fault, checked)
                 ELSE IF is_blacklisted(redacted, blacklist)
                 THEN skip("blacklisted", read_raised, checked)
                 ELSE [outcome |-> "appended", row |-> Put(data, S_text, redacted),
                       raised |-> read_raised, calls |-> checked]

loop_body(doc, blacklist) ==
    LET data == parse_index_file(doc.index_file)
        parse_raised == IF DOMAIN data = {} THEN "parse_index_file" ELSE "none"
        skip(o, e, c) == [outcome |-> o, row |-> EmptyDict, raised |-> e, calls |-> c]
    IN  IF ~is_expected_format(data)
        THEN skip("format", parse_raised, CallsBeforeText(doc, FALSE))
        ELSE IF ~doc.text_file.exists
        THEN [outcome |-> "appended", row |-> Put(data, S_text, <<>>), raised |-> "none",
              calls |-> CallsBeforeText(doc, FALSE)]
        ELSE LET text == read_text_file(doc.text_file)
                 read_raised == IF doc.text_file.readable THEN "none" ELSE "read_text_file"
                 checked == CallsBeforeText(doc, TRUE) \o <<Called("is_blacklisted", text)>>
             IN  IF doc.fault = "is_blacklisted"
                 THEN skip("exception", doc.fault, checked)
                 ELSE IF is_blacklisted(text, blacklist)
                 THEN skip("blacklisted", read_raised, checked)
                 ELSE IF doc.fault \in {"remove_common_phrases", "anonymize_text"}
                 THEN skip("exception", doc.fault,
                           checked \o RedactionCalls(text, doc.fault))
                 ELSE [outcome |-> "appended",
                       row |-> Put(data, S_text, anonymize_text(remove_common_phrases(text))),
                       raised |-> read_raised,
                       calls |-> checked \o RedactionCalls(text, doc.fault)]

\* pickle_file without the chunk number in the name
pickle_file_unnumbered(chunk_number) == <<"final_dataframes", "dataframe_chunk_", 0, ".pkl">>

\* os.path.join(final_output_dir, f"dataframe_chunk_{chunk_number}.pkl")
pickle_file(chunk_number) == <<"final_dataframes", "dataframe_chunk_", chunk_number, ".pkl">>

-----------------------------------------------------------------------------
(* Inputs.                                                                 *)

\* the index line of the tests (setUp) and of create_dummy_data.py
TestIndexFields ==
    <<T_zipname, T_filename, T_BatchID, T_Batch_001, T_DocumentID, T_Doc_00001,
      S_docType, T_bill, S_pageCount, T_5>>

\* an index line whose ids come from the trailing path
PathIndexFields ==
    <<T_zipname, T_filename, S_docType, T_bill, S_pageCount, T_5, P_TrailingPath>>

\* an index line with the id keys the parser looks for and an empty trailing field
KeyedIndexFields ==
    <<T_zipname, T_filename, S_BatchIDKey, T_Batch_001, S_DocumentIDKey, T_Doc_00001,
      S_docType, T_bill, S_pageCount, T_5, <<>> >>

\* an index line without docType
NoDocTypeFields ==
    <<T_zipname, T_filename, S_pageCount, T_5, P_TrailingPath>>

IndexFile(fields) == [readable |-> TRUE, content |-> index_content_str(fields)]
UnreadableFile == [readable |-> FALSE, content |-> <<>>]
TextFile(content) == [exists |-> TRUE, readable |-> TRUE, content |-> content]
NoTextFile == [exists |-> FALSE, readable |-> FALSE, content |-> <<>>]
UnreadableTextFile == [exists |-> TRUE, readable |-> FALSE, content |-> <<>>]

Doc(index_file, text_file, fault) ==
    [index_file |-> index_file, text_file |-> text_file, fault |-> fault]

\* the file system under unzipped_files: what each index path leads to
Documents ==
    [row |-> Doc(IndexFile(PathIndexFields), TextFile(X_ContactAllowed), "none"),
     blacklisted |-> Doc(IndexFile(KeyedIndexFields), TextFile(X_ContactUpper), "none"),
     no_text |-> Doc(IndexFile(PathIndexFields), NoTextFile, "none"),
     test |-> Doc(IndexFile(TestIndexFields), TextFile(X_ContactAllowed), "none"),
     no_doctype |-> Doc(IndexFile(NoDocTypeFields), TextFile(X_ContactAllowed), "none"),
     unreadable_index |-> Doc(UnreadableFile, TextFile(X_ContactBlacklisted), "none"),
     unreadable_text |-> Doc(IndexFile(KeyedIndexFields), UnreadableTextFile, "none"),
     raises_blacklist |-> Doc(IndexFile(PathIndexFields), TextFile(X_ContactAllowed), "is_blacklisted"),
     raises_phrases |-> Doc(IndexFile(KeyedIndexFields), TextFile(X_ContactAllowed), "remove_common_phrases"),
     raises_anonymize |-> Doc(IndexFile(PathIndexFields), TextFile(X_ContactAllowed), "anonymize_text")]

\* the index paths a run of main() may find
Paths == DOMAIN Documents

\* the loop body of process_index_files on each path, under the blacklist of
\* main: pairs of a path and what the loop body yields on it
Processed == {<<p, loop_body(Documents[p], blacklist_emails)>> : p \in Paths}

\* the part of such a table for the paths of a run
TableOf(pairs, paths) ==
    [p \in {paths[k] : k \in DOMAIN paths} |-> (CHOOSE e \in pairs : e[1] = p)[2]]

SeqsUpTo(S, n) == UNION {[1..k -> S] : k \in 0..n}

-----------------------------------------------------------------------------
(* State.                                                                  *)

VARIABLES
    index_files,       \* main: the index paths found, in order
    chunk_size,        \* main: chunk_size
    multiprocessing,   \* main: the mode flag
    cpu_count,         \* main: the size of the pool
    pc,                \* main: "start", "dispatch", "done"; "unit" for a unit call
    chunks_list,       \* main: list(chunks(index_files, chunk_size))
    task,              \* per chunk number: the call of process_index_files, with
                       \* the way each iteration ended and the call that raised
    final_dataframes,  \* the directory final_dataframes: file name -> rows
    writes,            \* the calls of to_pickle, in order: [file, chunk_number]
    shared,            \* the configuration every call of process_index_files is
                       \* given: blacklist, phrase vocabulary, pattern list
    processed,         \* what the loop body of process_index_files yields on each
                       \* document of the run, under the blacklist of main
    leftover,          \* final_dataframes as an earlier run left it
    write_fault,       \* per chunk number: what to_pickle does on its file
    zip_dir,           \* the directory zip_dir: entry name -> what reading it does
    unzipped_files,    \* the tree under output_dir: extract_dir -> the files in it
    unzip,             \* the call of unzip_files: its arguments, its position in
                       \* zip_files, what it has done so far, and zip_dir and
                       \* the tree as they were when it was called
    call,              \* a unit call: the function and its arguments
    called,            \* the unit call has returned
    ret                \* its result

vars ==
    <<index_files, chunk_size, multiprocessing, cpu_count, pc, chunks_list, task,
      final_dataframes, writes, shared, processed, leftover, write_fault,
      zip_dir, unzipped_files, unzip, call, called, ret>>

main_vars ==
    <<index_files, chunk_size, multiprocessing, cpu_count, pc, chunks_list, task,
      final_dataframes, writes, shared, processed, leftover, write_fault,
      zip_dir, unzipped_files, unzip>>

zip_vars == <<zip_dir, unzipped_files, unzip>>

env_vars == <<shared, processed, leftover, write_fault, zip_vars>>

\* the variables of main after unzip_files
run_vars ==
    <<index_files, chunk_size, multiprocessing, cpu_count, pc, chunks_list, task,
      final_dataframes, writes, shared, processed, leftover, write_fault>>

unit_vars == <<call, called, ret>>

\* the rows of the documents of a path list that are appended, in order
RECURSIVE SurvivorRows(_)
SurvivorRows(paths) ==
    IF paths = <<>> THEN <<>>
    ELSE (IF processed[Head(paths)].outcome = "appended"
          THEN <<processed[Head(paths)].row>> ELSE <<>>) \o SurvivorRows(Tail(paths))

\* what every call of process_index_files is given besides its chunk: the
\* blacklist of main, and the module-level vocabulary and list of patterns
SharedConfig ==
    [blacklist_emails |-> blacklist_emails,
     common_phrases |-> common_phrases,
     regex_substitutions |->
         [k \in DOMAIN regex_substitutions |-> regex_substitutions[k].pattern_name]]

\* a segment file written by an earlier run on other inputs
StaleSegment == <<Put(EmptyDict, S_text, <<"s", "t", "a", "l", "e">>)>>

\* a segment file that to_pickle opened for writing and did not finish
TruncatedSegment == <<Put(EmptyDict, S_text, <<"c", "u", "t">>)>>

\* what to_pickle does on the file of a chunk: it writes it ("none"), open()
\* raises and leaves the file as it is ("open"), or the write raises after
\* open() has truncated the file ("write")
FaultKinds == {"none", "open", "write"}

NoFault == [i \in 0..(MaxDocs - 1) |-> "none"]

\* no call of unzip_files
NoUnzip == [state |-> "idle"]

\* at most one chunk of a run fails
FaultChoices ==
    {f \in [0..(MaxDocs - 1) -> FaultKinds] :
        Cardinality({i \in DOMAIN f : f[i] # "none"}) <= 1}

\* what an earlier run left of the segment of a chunk index
LeftoverKinds == {"missing", "stale", "present"}

\* final_dataframes as an earlier run on the same partition left it: per chunk
\* index no file, a stale file, or the file a clean run writes
LeftoverOf(kinds, paths, n) ==
    LET partition == chunks(paths, n)
        files == {i \in DOMAIN kinds :
                     kinds[i] = "stale" \/ (kinds[i] = "present" /\ i < Len(partition))}
    IN  [f \in {pickle_file(i) : i \in files} |->
            LET i == f[3]
            IN  IF kinds[i] = "present" THEN SurvivorRows(partition[i + 1])
                ELSE StaleSegment]

\* the documents of the runs with failing writes and leftover segments
RerunPaths == {"row", "blacklisted"}

ChunkNumbers == 0..(Len(chunks_list) - 1)

\* enumerate(chunks_list): chunk number i is the i-th chunk counted from 0
ChunkOf(i) == chunks_list[i + 1]

\* process_index_files before its loop: data_list = [], count_blacklist = 0
NewTask ==
    [state |-> "pending", pos |-> 0, data_list |-> <<>>, count_blacklist |-> 0,
     outcomes |-> <<>>, raised |-> <<>>]

Init ==
    \E table \in {Processed} :
    /\ index_files \in SeqsUpTo(Paths, MaxDocs)
    /\ processed = TableOf(table, index_files)
    /\ chunk_size \in 1..MaxChunkSize
    /\ multiprocessing \in BOOLEAN
    /\ cpu_count \in IF multiprocessing THEN 1..MaxCpu ELSE {1}
    /\ pc = "start"
    /\ chunks_list = <<>>
    /\ task = <<>>
    /\ final_dataframes = <<>>
    /\ writes = <<>>
    /\ shared = SharedConfig
    /\ leftover = <<>>
    /\ write_fault = NoFault
    /\ zip_dir = <<>>
    /\ unzipped_files = <<>>
    /\ unzip = NoUnzip
    /\ call = [fn |-> "none"]
    /\ called = FALSE
    /\ ret = <<>>

\* a run of main on a directory final_dataframes that an earlier run left
\* behind, in which the write of at most one segment fails
InitFaults ==
    \E table \in {Processed} :
    /\ index_files \in SeqsUpTo(RerunPaths, MaxDocs)
    /\ processed = TableOf(table, index_files)
    /\ chunk_size \in 1..MaxChunkSize
    /\ multiprocessing \in BOOLEAN
    /\ cpu_count \in IF multiprocessing THEN 1..MaxCpu ELSE {1}
    /\ pc = "start"
    /\ chunks_list = <<>>
    /\ task = <<>>
    /\ leftover \in {LeftoverOf(kinds, index_files, chunk_size) :
                        kinds \in [0..(MaxDocs - 1) -> LeftoverKinds]}
    /\ final_dataframes = leftover
    /\ writes = <<>>
    /\ shared = SharedConfig
    /\ write_fault \in FaultChoices
    /\ zip_dir = <<>>
    /\ unzipped_files = <<>>
    /\ unzip = NoUnzip
    /\ call = [fn |-> "none"]
    /\ called = FALSE
    /\ ret = <<>>

-----------------------------------------------------------------------------
(* main and process_index_files.                                           *)

\* main: chunks_list = list(chunks(index_files, chunk_size))
Partition ==
    /\ pc = "start"
    /\ chunks_list' = chunks(index_files, chunk_size)
    /\ task' = [i \in 0..(Len(chunks_list') - 1) |-> NewTask]
    /\ pc' = "dispatch"
    /\ UNCHANGED <<index_files, chunk_size, multiprocessing, cpu_count,
                   final_dataframes, writes, unit_vars, env_vars>>

\* main hands chunk i to process_index_files: the loop over enumerate(chunks_list)
\* calls them one after the other; pool.starmap gives a chunk to a free worker
StartChunk(i) ==
    /\ pc = "dispatch"
    /\ task[i].state = "pending"
    /\ IF multiprocessing
       THEN Cardinality({j \in ChunkNumbers : task[j].state = "running"}) < cpu_count
       ELSE \A j \in ChunkNumbers : j < i => task[j].state = "saved"
    /\ task' = [task EXCEPT ![i].state = "running"]
    /\ UNCHANGED <<index_files, chunk_size, multiprocessing, cpu_count, pc,
                   chunks_list, final_dataframes, writes, unit_vars, env_vars>>

\* ProcessDoc with the try around the loop: an exception ends the loop
ProcessDocLeavingLoop(i) ==
    /\ pc = "dispatch"
    /\ task[i].state = "running"
    /\ task[i].pos < Len(ChunkOf(i))
    /\ LET r == processed[ChunkOf(i)[task[i].pos + 1]]
       IN  task' = [task EXCEPT
                ![i].pos = IF r.outcome = "exception" THEN Len(ChunkOf(i)) ELSE @ + 1,
                ![i].data_list = IF r.outcome = "appended" THEN Append(@, r.row) ELSE @,
                ![i].count_blacklist = IF r.outcome = "blacklisted" THEN @ + 1 ELSE @,
                ![i].outcomes = Append(@, r.outcome),
                ![i].raised = Append(@, r.raised)]
    /\ UNCHANGED <<index_files, chunk_size, multiprocessing, cpu_count, pc,
                   chunks_list, final_dataframes, writes, unit_vars, env_vars>>

\* ProcessDoc with data_list.insert(0, data) for data_list.append(data)
ProcessDocPrepending(i) ==
    /\ pc = "dispatch"
    /\ task[i].state = "running"
    /\ task[i].pos < Len(ChunkOf(i))
    /\ LET r == processed[ChunkOf(i)[task[i].pos + 1]]
       IN  task' = [task EXCEPT
                ![i].pos = @ + 1,
                ![i].data_list = IF r.outcome = "appended" THEN <<r.row>> \o @ ELSE @,
                ![i].count_blacklist = IF r.outcome = "blacklisted" THEN @ + 1 ELSE @,
                ![i].outcomes = Append(@, r.outcome),
                ![i].raised = Append(@, r.raised)]
    /\ UNCHANGED <<index_files, chunk_size, multiprocessing, cpu_count, pc,
                   chunks_list, final_dataframes, writes, unit_vars, env_vars>>

\* ProcessDoc that counts every document it does not append
ProcessDocCountingSkips(i) ==
    /\ pc = "dispatch"
    /\ task[i].state = "running"
    /\ task[i].pos < Len(ChunkOf(i))
    /\ LET r == processed[ChunkOf(i)[task[i].pos + 1]]
       IN  task' = [task EXCEPT
                ![i].pos = @ + 1,
                ![i].data_list = IF r.outcome = "appended" THEN Append(@, r.row) ELSE @,
                ![i].count_blacklist = IF r.outcome # "appended" THEN @ + 1 ELSE @,
                ![i].outcomes = Append(@, r.outcome),
                ![i].raised = Append(@, r.raised)]
    /\ UNCHANGED <<index_files, chunk_size, multiprocessing, cpu_count, pc,
                   chunks_list, final_dataframes, writes, unit_vars, env_vars>>

\* the loop body on a path: the blacklist check is made against the blacklist
\* the call holds, and a hit ends the iteration before the redaction
DocResult(path) ==
    LET r == processed[path]
    IN  IF shared.blacklist_emails = blacklist_emails THEN r
        ELSE IF /\ r.outcome = "appended"
                /\ \E k \in DOMAIN r.calls :
                       /\ r.calls[k].fn = "is_blacklisted"
                       /\ is_blacklisted(r.calls[k].arg, shared.blacklist_emails)
        THEN [r EXCEPT !.outcome = "blacklisted", !.row = EmptyDict]
        ELSE r

\* ProcessDoc that adds the text of a dropped document to the blacklist
ProcessDocAddingToBlacklist(i) ==
    /\ pc = "dispatch"
    /\ task[i].state = "running"
    /\ task[i].pos < Len(ChunkOf(i))
    /\ LET path == ChunkOf(i)[task[i].pos + 1]
           r == DocResult(path)
       IN  /\ task' = [task EXCEPT
                  ![i].pos = @ + 1,
                  ![i].data_list = IF r.outcome = "appended" THEN Append(@, r.row) ELSE @,
                  ![i].count_blacklist = IF r.outcome = "blacklisted" THEN @ + 1 ELSE @,
                  ![i].outcomes = Append(@, r.outcome),
                  ![i].raised = Append(@, r.raised)]
           /\ shared' =
                  IF r.outcome = "blacklisted"
                  THEN [shared EXCEPT !.blacklist_emails =
                            @ \cup {Documents[path].text_file.content}]
                  ELSE shared
    /\ UNCHANGED <<index_files, chunk_size, multiprocessing, cpu_count, pc,
                   chunks_list, final_dataframes, writes, unit_vars,
                   processed, leftover, write_fault, zip_vars>>

\* ProcessDoc that skips a document for which no text file was read
ProcessDocRequiringText(i) ==
    /\ pc = "dispatch"
    /\ task[i].state = "running"
    /\ task[i].pos < Len(ChunkOf(i))
    /\ LET q == DocResult(ChunkOf(i)[task[i].pos + 1])
           r == IF /\ q.outcome = "appended"
                   /\ \A k \in DOMAIN q.calls : q.calls[k].fn # "read_text_file"
                THEN [q EXCEPT !.outcome = "format", !.row = EmptyDict]
                ELSE q
       IN  task' = [task EXCEPT
                ![i].pos = @ + 1,
                ![i].data_list = IF r.outcome = "appended" THEN Append(@, r.row) ELSE @,
                ![i].count_blacklist = IF r.outcome = "blacklisted" THEN @ + 1 ELSE @,
                ![i].outcomes = Append(@, r.outcome),
                ![i].raised = Append(@, r.raised)]
    /\ UNCHANGED <<index_files, chunk_size, multiprocessing, cpu_count, pc,
                   chunks_list, final_dataframes, writes, unit_vars, env_vars>>

\* process_index_files: one iteration of the loop over index_files_chunk
ProcessDoc(i) ==
    /\ pc = "dispatch"
    /\ task[i].state = "running"
    /\ task[i].pos < Len(ChunkOf(i))
    /\ LET r == DocResult(ChunkOf(i)[task[i].pos + 1])
       IN  task' = [task EXCEPT
                ![i].pos = @ + 1,
                ![i].data_list = IF r.outcome = "appended" THEN Append(@, r.row) ELSE @,
                ![i].count_blacklist = IF r.outcome = "blacklisted" THEN @ + 1 ELSE @,
                ![i].outcomes = Append(@, r.outcome),
                ![i].raised = Append(@, r.raised)]
    /\ UNCHANGED <<index_files, chunk_size, multiprocessing, cpu_count, pc,
                   chunks_list, final_dataframes, writes, unit_vars, env_vars>>

\* process_index_files after its loop: pd.DataFrame(data_list).to_pickle(pickle_file)
\* SaveChunk that leaves a segment file alone when one exists already
SaveChunkKeepingExisting(i) ==
    /\ pc = "dispatch"
    /\ task[i].state = "running"
    /\ task[i].pos = Len(ChunkOf(i))
    /\ write_fault[i] = "none"
    /\ final_dataframes' =
           IF pickle_file(i) \in DOMAIN final_dataframes THEN final_dataframes
           ELSE Put(final_dataframes, pickle_file(i), task[i].data_list)
    /\ writes' = Append(writes, [file |-> pickle_file(i), chunk_number |-> i])
    /\ task' = [task EXCEPT ![i].state = "saved"]
    /\ UNCHANGED <<index_files, chunk_size, multiprocessing, cpu_count, pc,
                   chunks_list, unit_vars, env_vars>>

SaveChunk(i) ==
    /\ pc = "dispatch"
    /\ task[i].state = "running"
    /\ task[i].pos = Len(ChunkOf(i))
    /\ write_fault[i] = "none"
    /\ final_dataframes' = Put(final_dataframes, pickle_file(i), task[i].data_list)
    /\ writes' = Append(writes, [file |-> pickle_file(i), chunk_number |-> i])
    /\ task' = [task EXCEPT ![i].state = "saved"]
    /\ UNCHANGED <<index_files, chunk_size, multiprocessing, cpu_count, pc,
                   chunks_list, unit_vars, env_vars>>

\* process_index_files after its loop when to_pickle raises: the exception
\* leaves the call; in the loop of main it leaves main as well, in the pool it
\* is kept until every call has returned
FailSave(i) ==
    /\ pc = "dispatch"
    /\ task[i].state = "running"
    /\ task[i].pos = Len(ChunkOf(i))
    /\ write_fault[i] # "none"
    /\ final_dataframes' =
           IF write_fault[i] = "write"
           THEN Put(final_dataframes, pickle_file(i), TruncatedSegment)
           ELSE final_dataframes
    /\ task' = [task EXCEPT ![i].state = "failed"]
    /\ pc' = IF multiprocessing THEN pc ELSE "raised"
    /\ UNCHANGED <<index_files, chunk_size, multiprocessing, cpu_count,
                   chunks_list, writes, unit_vars, env_vars>>

\* main returns: the loop is over, or pool.starmap has every result and
\* raises the exception of a call that failed
Finish ==
    /\ pc = "dispatch"
    /\ \A i \in ChunkNumbers : task[i].state \in {"saved", "failed"}
    /\ pc' = IF \E i \in ChunkNumbers : task[i].state = "failed" THEN "raised" ELSE "done"
    /\ UNCHANGED <<index_files, chunk_size, multiprocessing, cpu_count,
                   chunks_list, task, final_dataframes, writes, unit_vars, env_vars>>

-----------------------------------------------------------------------------
(* Unit calls: one call of a function on arguments drawn from bounded sets, *)
(* as the tests of test_prepare_data.py make them.                         *)

\* list(range(10)) of test_chunks
TestList == [k \in 1..10 |-> k - 1]

ChunksCalls ==
    {[fn |-> "chunks", lst |-> l, n |-> n] :
        l \in SeqsUpTo({0, 1}, MaxLen) \cup {TestList}, n \in 1..MaxN}

\* keys a record may carry: the expected columns, the id keys of the tests, text
FormatKeys == expected_columns \cup {T_BatchID, T_DocumentID, S_text}

FormatCalls ==
    {[fn |-> "is_expected_format", data |-> [k \in K |-> T_5]] : K \in SUBSET FormatKeys}

Alphabet == {"a", "A", "b"}

\* the blacklists of at most two entries over the small alphabet
SmallBlacklists ==
    {{}} \cup {{a, b} : a, b \in SeqsUpTo(Alphabet, MaxEntryLen)}

BlacklistCalls ==
    {[fn |-> "is_blacklisted", text |-> t, blacklist_emails |-> b] :
        t \in SeqsUpTo(Alphabet, MaxTextLen),
        b \in SmallBlacklists}
    \cup
    {[fn |-> "is_blacklisted", text |-> t, blacklist_emails |-> b] :
        t \in {X_ContactBlacklisted, X_ContactAllowed, X_ContactUpper},
        b \in {{B_blacklisted}, blacklist_emails}}

\* key/value pairs of a generated index line
PairCandidates ==
    {<<T_BatchID, T_Batch_001>>, <<T_DocumentID, T_Doc_00001>>, <<S_docType, T_bill>>,
     <<S_pageCount, T_5>>, <<S_BatchIDKey, T_Batch_001>>, <<S_DocumentIDKey, T_Doc_00001>>}

\* the trailing field: none, empty, a path, a file name without separator
Trailings == {<<>>, << <<>> >>, <<P_TrailingPath>>, <<P_NoSeparator>>}

RECURSIVE Flatten(_)
Flatten(seqs) == IF seqs = <<>> THEN <<>> ELSE Head(seqs) \o Flatten(Tail(seqs))

\* the fields of an index line: two positional fields, the pairs, the trailing field
LineFields(pairs, trailing) == <<T_zipname, T_filename>> \o Flatten(pairs) \o trailing

ParseCalls ==
    {[fn |-> "parse_index_file", index_file |-> IndexFile(LineFields(ps, tr)),
      pairs |-> ps, trailing |-> tr] :
        ps \in SeqsUpTo(PairCandidates, MaxPairs) \cup
               {<<<<T_BatchID, T_Batch_001>>, <<T_DocumentID, T_Doc_00001>>,
                  <<S_docType, T_bill>>, <<S_pageCount, T_5>>>>},
        tr \in Trailings}
    \cup {[fn |-> "parse_index_file", index_file |-> UnreadableFile,
           pairs |-> <<>>, trailing |-> <<>>],
          [fn |-> "parse_index_file", index_file |-> [readable |-> TRUE, content |-> <<>>],
           pairs |-> <<>>, trailing |-> <<>>]}

\* index lines with a key that has no value between the pairs and the
\* trailing field, which is empty or a path
OddParseCalls ==
    {[fn |-> "parse_index_file",
      index_file |-> IndexFile(LineFields(ps, <<S_pageCount>> \o tr)),
      pairs |-> ps, trailing |-> tr, unmatched |-> S_pageCount] :
        ps \in SeqsUpTo(PairCandidates, MaxPairs),
        tr \in {<< <<>> >>, <<P_TrailingPath>>}}

InitUnit ==
    /\ call \in ChunksCalls \cup FormatCalls \cup BlacklistCalls \cup ParseCalls
                 \cup OddParseCalls
    /\ called = FALSE
    /\ ret = <<>>
    /\ index_files = <<>>
    /\ chunk_size = 1
    /\ multiprocessing = FALSE
    /\ cpu_count = 1
    /\ pc = "unit"
    /\ chunks_list = <<>>
    /\ task = <<>>
    /\ final_dataframes = <<>>
    /\ writes = <<>>
    /\ shared = SharedConfig
    /\ processed = <<>>
    /\ leftover = <<>>
    /\ write_fault = NoFault
    /\ zip_dir = <<>>
    /\ unzipped_files = <<>>
    /\ unzip = NoUnzip

CallChunks ==
    /\ ~called
    /\ call.fn = "chunks"
    /\ ret' = chunks(call.lst, call.n)
    /\ called' = TRUE
    /\ UNCHANGED <<call, main_vars>>

CallParseIndexFile ==
    /\ ~called
    /\ call.fn = "parse_index_file"
    /\ ret' = parse_index_file(call.index_file)
    /\ called' = TRUE
    /\ UNCHANGED <<call, main_vars>>

CallIsExpectedFormat ==
    /\ ~called
    /\ call.fn = "is_expected_format"
    /\ ret' = is_expected_format(call.data)
    /\ called' = TRUE
    /\ UNCHANGED <<call, main_vars>>

CallIsBlacklisted ==
    /\ ~called
    /\ call.fn = "is_blacklisted"
    /\ ret' = is_blacklisted(call.text, call.blacklist_emails)
    /\ called' = TRUE
    /\ UNCHANGED <<call, main_vars>>

NextUnit ==
    \/ CallChunks
    \/ CallParseIndexFile
    \/ CallIsExpectedFormat
    \/ CallIsBlacklisted

SpecUnit == InitUnit /\ [][NextUnit]_vars

Next ==
    \/ Partition
    \/ \E i \in ChunkNumbers : StartChunk(i)
    \/ \E i \in ChunkNumbers : ProcessDoc(i)
    \/ \E i \in ChunkNumbers : SaveChunk(i)
    \/ Finish

Spec == Init /\ [][Next]_vars

\* every started call runs on: the loop and the pool never wait for one another
FairSpec == Spec /\ WF_vars(Next)

NextFaults ==
    \/ Next
    \/ \E i \in ChunkNumbers : FailSave(i)

SpecFaults == InitFaults /\ [][NextFaults]_vars
-----------------------------------------------------------------------------
(* Unit calls of the redaction functions.                                   *)

\* the largest number of pieces a text of a call is put together from
MaxPieces == 3

\* the texts put together from up to n pieces
TextsOf(pieces, n) == {Concat(ps) : ps \in SeqsUpTo(pieces, n)}

\* the text of test_remove_common_phrases
X_TestPhrases ==
    <<"S", "e", "h", "r", " ", "g", "e", "e", "h", "r", "t", "e", " ", "D", "a", "m", "e", "n", " ", "u", "n", "d", " ", "H", "e", "r", "r", "e", "n", ",", "\n", "\n", "D", "i", "e", "s", " ", "i", "s", "t", " ", "e", "i", "n", " ", "T", "e", "s", "t", ".", "\n", "\n", "M", "i", "t", " ", "f", "r", "e", "u", "n", "d", "l", "i", "c", "h", "e", "n", " ", "G", "r", "ü", "ß", "e", "n", ",", "\n", "T", "e", "s", "t", "e", "r">>

\* the text of test_anonymize_text
X_TestAnonymize ==
    <<"M", "e", "i", "n", " ", "N", "a", "m", "e", " ", "i", "s", "t", " ", "M", "a", "x", " ", "M", "u", "s", "t", "e", "r", "m", "a", "n", "n", " ", "u", "n", "d", " ", "i", "c", "h", " ", "w", "o", "h", "n", "e", " ", "i", "n", " ", "B", "e", "r", "l", "i", "n", ".", " ", "S", "i", "e", " ", "k", "ö", "n", "n", "e", "n", " ", "m", "i", "c", "h", " ", "u", "n", "t", "e", "r", " ", "m", "a", "x", ".", "m", "u", "s", "t", "e", "r", "m", "a", "n", "n", "@", "e", "x", "a", "m", "p", "l", "e", ".", "c", "o", "m", " ", "e", "r", "r", "e", "i", "c", "h", "e", "n", ".">>

X_Tester == <<"T", "e", "s", "t", "e", "r">>

\* a phrase of the vocabulary, the same letters as the start of a longer word,
\* punctuation and a line end, a space, a word
PhrasePieces ==
    {C_BesteGruesse, C_BesteGruesse \o <<"n">>, <<",", "\n">>, <<" ">>, X_Tester}

PhraseCalls ==
    {[fn |-> "remove_common_phrases", text |-> t] :
        t \in TextsOf(PhrasePieces, MaxPieces) \cup {X_TestPhrases}}

\* the address of the tests, and an address whose local part ends in "+"
E_MaxMustermann == <<"m", "a", "x", ".", "m", "u", "s", "t", "e", "r", "m", "a", "n", "n", "@", "e", "x", "a", "m", "p", "l", "e", ".", "c", "o", "m">>

E_PlusLocal == <<"u", "s", "e", "r", "+", "@", "e", "x", "a", "m", "p", "l", "e", ".", "c", "o", "m">>

\* the phone number of the tests
X_Phone == <<"+", "4", "9", " ", "1", "2", "3", "4", " ", "5", "6", "7", "8", "9", "0">>

PiiPieces == {E_MaxMustermann, E_PlusLocal, X_Phone, R_REDACTED_PHRASE, <<" ">>}

PiiCalls ==
    {[fn |-> "pii_substitution", text |-> t] :
        t \in TextsOf(PiiPieces, MaxPieces) \cup {X_TestAnonymize}}

EntityPieces == {<<"M", "a", "x">>, <<" ">>, <<".">>}

\* every labelling a recognizer can give the tokens of a text
Labellings(text) == [DOMAIN nlp(pii_substitution(text)) -> EntityKinds]

\* anonymize_text on a text, with the entity kinds the recognizer gives the
\* tokens: any labelling of a short text, that of the model on the text of the test
\* the recognizer that finds no entity
NoEntities(text) == [j \in DOMAIN nlp(pii_substitution(text)) |-> ""]

\* texts with addresses and phone numbers in which no entity is found
UnlabelledCalls ==
    {[fn |-> "anonymize_text", text |-> t, ents |-> NoEntities(t)] :
        t \in TextsOf(PiiPieces, MaxPieces)}

AnonymizeCalls ==
    UNION {{[fn |-> "anonymize_text", text |-> t, ents |-> e] : e \in Labellings(t)} :
              t \in TextsOf(EntityPieces, MaxPieces)}
    \cup UnlabelledCalls
    \cup {[fn |-> "anonymize_text", text |-> X_TestAnonymize,
           ents |-> de_core_news_md(nlp(pii_substitution(X_TestAnonymize)))]}

InitText ==
    /\ call \in PhraseCalls \cup PiiCalls \cup AnonymizeCalls
    /\ called = FALSE
    /\ ret = <<>>
    /\ index_files = <<>>
    /\ chunk_size = 1
    /\ multiprocessing = FALSE
    /\ cpu_count = 1
    /\ pc = "unit"
    /\ chunks_list = <<>>
    /\ task = <<>>
    /\ final_dataframes = <<>>
    /\ writes = <<>>
    /\ shared = SharedConfig
    /\ processed = <<>>
    /\ leftover = <<>>
    /\ write_fault = NoFault
    /\ zip_dir = <<>>
    /\ unzipped_files = <<>>
    /\ unzip = NoUnzip

CallRemoveCommonPhrases ==
    /\ ~called
    /\ call.fn = "remove_common_phrases"
    /\ ret' = remove_common_phrases(call.text)
    /\ called' = TRUE
    /\ UNCHANGED <<call, main_vars>>

\* anonymize_text, the loop over regex_substitutions: the passes in their order
CallPiiSubstitution ==
    /\ ~called
    /\ call.fn = "pii_substitution"
    /\ ret' = pii_steps(regex_substitutions, call.text)
    /\ called' = TRUE
    /\ UNCHANGED <<call, main_vars>>

CallAnonymizeText ==
    /\ ~called
    /\ call.fn = "anonymize_text"
    /\ ret' = anonymize_text_with(call.text, call.ents)
    /\ called' = TRUE
    /\ UNCHANGED <<call, main_vars>>

NextText ==
    \/ CallRemoveCommonPhrases
    \/ CallPiiSubstitution
    \/ CallAnonymizeText

SpecText == InitText /\ [][NextText]_vars

-----------------------------------------------------------------------------
(* unzip_files: calls of unzip_files, one after the other, on a directory  *)
(* of archives.                                                            *)

\* the largest number of archives in zip_dir
MaxArchives == 2

\* the largest number of calls of unzip_files
MaxRuns == 2

\* month of main
S_month == "2023-10"

\* the members of an archive, in the order extractall writes them
Members == <<"doc_index.txt", "doc.txt">>

MemberSet == {Members[k] : k \in DOMAIN Members}

\* what reading an entry of zip_dir does: it is a zip archive ("good"); it is
\* no zip archive or a cut one, ZipFile() raises BadZipFile ("not_zip"); a
\* member has a wrong checksum, extractall raises BadZipFile after the members
\* before it ("bad_crc"); the compressed data of a member is damaged, extractall
\* raises zlib.error after the members before it ("bad_data"); open() raises
\* OSError: a directory, a dangling link, no permission ("unreadable")
ArchiveKinds == {"good", "not_zip", "bad_crc", "bad_data", "unreadable"}

\* the exceptions that are zipfile.BadZipFile
BadZipFile == {"not_zip", "bad_crc"}

\* the members extractall writes before it returns or raises
WrittenBy(kind) ==
    IF kind = "good" THEN MemberSet
    ELSE IF kind \in {"bad_crc", "bad_data"} THEN {Members[1]}
    ELSE {}

ZipName(k) == [stem |-> k, ext |-> "zip"]

\* an entry of zip_dir that is no archive
Notes == [stem |-> 0, ext |-> "txt"]

\* the directories of archives unzip_files may be given
ZipDirs ==
    UNION {{[e \in {ZipName(k) : k \in 1..n} \cup {Notes} |->
                IF e = Notes THEN "not_zip" ELSE kinds[e.stem]] :
               kinds \in [1..n -> ArchiveKinds]} :
              n \in 1..MaxArchives}

\* glob(os.path.join(zip_dir, "*.zip"))
glob_zip(dir) == {e \in DOMAIN dir : e.ext = "zip"}

\* os.path.splitext(os.path.basename(zip_path))[0]
zip_name_no_ext(zip_path) == zip_path.stem

\* os.path.join(output_dir, month, zip_name_no_ext)
extract_dir(zip_path) == <<S_month, zip_name_no_ext(zip_path)>>

\* the orders in which glob may list a set of entries
Orders(S) ==
    {q \in [1..Cardinality(S) -> S] : \A a, b \in 1..Cardinality(S) : a # b => q[a] # q[b]}

InitUnzip ==
    /\ zip_dir \in ZipDirs
    /\ unzipped_files = <<>>
    /\ unzip = [state |-> "idle", force |-> FALSE, zip_files |-> <<>>, pos |-> 0,
                phase |-> "check", extracted |-> {}, skipped |-> {}, errors |-> {},
                before |-> <<>>, prev |-> "none", runs |-> 0, given |-> zip_dir]
    /\ index_files = <<>>
    /\ chunk_size = 1
    /\ multiprocessing = FALSE
    /\ cpu_count = 1
    /\ pc = "unzip"
    /\ chunks_list = <<>>
    /\ task = <<>>
    /\ final_dataframes = <<>>
    /\ writes = <<>>
    /\ shared = SharedConfig
    /\ processed = <<>>
    /\ leftover = <<>>
    /\ write_fault = NoFault
    /\ call = [fn |-> "none"]
    /\ called = FALSE
    /\ ret = <<>>

\* the archive of the iteration
ZipPath == unzip.zip_files[unzip.pos + 1]

\* unzip_files is called: zip_files = glob(...)
StartUnzip(force) ==
    /\ unzip.state # "running"
    /\ unzip.runs < MaxRuns
    /\ \E order \in Orders(glob_zip(zip_dir)) :
           unzip' = [state |-> "running", force |-> force, zip_files |-> order, pos |-> 0,
                     phase |-> "check", extracted |-> {}, skipped |-> {}, errors |-> {},
                     before |-> unzipped_files, prev |-> unzip.state,
                     runs |-> unzip.runs + 1, given |-> zip_dir]
    /\ UNCHANGED <<zip_dir, unzipped_files, run_vars, unit_vars>>

\* UnzipCheck that does not look for the directory
UnzipCheckIgnoringExisting ==
    /\ unzip.state = "running"
    /\ unzip.pos < Len(unzip.zip_files)
    /\ unzip.phase = "check"
    /\ unzipped_files' =
           IF extract_dir(ZipPath) \in DOMAIN unzipped_files THEN unzipped_files
           ELSE Put(unzipped_files, extract_dir(ZipPath), {})
    /\ unzip' = [unzip EXCEPT !.phase = "extract"]
    /\ UNCHANGED <<zip_dir, run_vars, unit_vars>>

\* the loop of unzip_files up to os.makedirs: the archive is skipped when its
\* directory exists and force is not set, else the directory is made
UnzipCheck ==
    /\ unzip.state = "running"
    /\ unzip.pos < Len(unzip.zip_files)
    /\ unzip.phase = "check"
    /\ IF ~unzip.force /\ extract_dir(ZipPath) \in DOMAIN unzipped_files
       THEN /\ unzip' = [unzip EXCEPT !.pos = @ + 1, !.skipped = @ \cup {ZipPath}]
            /\ UNCHANGED unzipped_files
       ELSE /\ unzipped_files' =
                   IF extract_dir(ZipPath) \in DOMAIN unzipped_files THEN unzipped_files
                   ELSE Put(unzipped_files, extract_dir(ZipPath), {})
            /\ unzip' = [unzip EXCEPT !.phase = "extract"]
    /\ UNCHANGED <<zip_dir, run_vars, unit_vars>>

\* the try of unzip_files: ZipFile(zip_path).extractall(extract_dir); BadZipFile
\* is logged and the loop goes on, any other exception leaves unzip_files
UnzipExtract ==
    /\ unzip.state = "running"
    /\ unzip.pos < Len(unzip.zip_files)
    /\ unzip.phase = "extract"
    /\ LET kind == zip_dir[ZipPath]
       IN  /\ unzipped_files' =
                  [unzipped_files EXCEPT ![extract_dir(ZipPath)] = @ \cup WrittenBy(kind)]
           /\ unzip' =
                  IF kind = "good"
                  THEN [unzip EXCEPT !.pos = @ + 1, !.phase = "check",
                                     !.extracted = @ \cup {ZipPath}]
                  ELSE IF kind \in BadZipFile
                  THEN [unzip EXCEPT !.pos = @ + 1, !.phase = "check",
                                     !.errors = @ \cup {ZipPath}]
                  ELSE [unzip EXCEPT !.state = "raised"]
    /\ UNCHANGED <<zip_dir, run_vars, unit_vars>>

\* the process is ended while extractall writes the members of an archive
UnzipKilled ==
    /\ unzip.state = "running"
    /\ unzip.pos < Len(unzip.zip_files)
    /\ unzip.phase = "extract"
    /\ zip_dir[ZipPath] = "good"
    /\ \E written \in {{}, {Members[1]}} :
           unzipped_files' =
               [unzipped_files EXCEPT ![extract_dir(ZipPath)] = @ \cup written]
    /\ unzip' = [unzip EXCEPT !.state = "killed"]
    /\ UNCHANGED <<zip_dir, run_vars, unit_vars>>

\* the loop is over: unzip_files returns
UnzipReturn ==
    /\ unzip.state = "running"
    /\ unzip.pos = Len(unzip.zip_files)
    /\ unzip' = [unzip EXCEPT !.state = "returned"]
    /\ UNCHANGED <<zip_dir, unzipped_files, run_vars, unit_vars>>

\* between two calls an archive that could not be read is replaced by a good one
RepairArchive(zip_path) ==
    /\ unzip.state \in {"returned", "raised", "killed"}
    /\ unzip.runs < MaxRuns
    /\ zip_dir[zip_path] # "good"
    /\ zip_dir' = [zip_dir EXCEPT ![zip_path] = "good"]
    /\ UNCHANGED <<unzipped_files, unzip, run_vars, unit_vars>>

NextUnzip ==
    \/ \E force \in BOOLEAN : StartUnzip(force)
    \/ UnzipCheck
    \/ UnzipExtract
    \/ UnzipKilled
    \/ UnzipReturn
    \/ \E zip_path \in glob_zip(zip_dir) : RepairArchive(zip_path)

SpecUnzip == InitUnzip /\ [][NextUnzip]_vars

-----------------------------------------------------------------------------
(* Properties of the unit calls (SpecUnit).                                *)

Returned(fn) == called /\ call.fn = fn

\* C3: for every list lst and every chunk size n >= 1, chunks(lst, n) yields
\* ordered, contiguous chunks whose concatenation is lst; every chunk but the
\* last has exactly n elements and the last has between 1 and n; a size of at
\* least len(lst) yields the single chunk lst for a non-empty lst; the empty
\* list yields no chunk; chunks([0..9], 3) is [[0,1,2],[3,4,5],[6,7,8],[9]].
C3_ChunksPartition ==
    Returned("chunks") =>
        /\ Concat(ret) = call.lst
        /\ \A k \in 1..(Len(ret) - 1) : Len(ret[k]) = call.n
        /\ ret # <<>> => Len(ret[Len(ret)]) \in 1..call.n
        /\ (call.lst # <<>> /\ call.n >= Len(call.lst)) => ret = <<call.lst>>
        /\ call.lst = <<>> => ret = <<>>
        /\ (call.lst = TestList /\ call.n = 3) =>
               ret = << <<0, 1, 2>>, <<3, 4, 5>>, <<6, 7, 8>>, <<9>> >>

\* the call of test_chunks has returned its four chunks, the last one short
C3_Witness ==
    /\ Returned("chunks")
    /\ call.lst = TestList /\ call.n = 3
    /\ Len(ret) = 4 /\ Len(ret[4]) = 1

\* the record C7 expects: the two positional keys and every pair of the line
RECURSIVE ExpectedRecord(_)
ExpectedRecord(pairs) ==
    IF pairs = <<>>
    THEN Put(Put(EmptyDict, S_BATCHKLASSE, T_zipname), S_BATCHCONTENT, T_filename)
    ELSE LET last == pairs[Len(pairs)]
         IN  Put(ExpectedRecord(SubSeq(pairs, 1, Len(pairs) - 1)), last[1], last[2])

\* a well-formed attribute-style line: N >= 1 pairs with distinct keys after the
\* two positional fields, and no trailing field
AttributeStyle(c) ==
    /\ c.index_file.readable
    /\ c.pairs # <<>>
    /\ c.trailing = <<>>
    /\ \A a, b \in DOMAIN c.pairs : a # b => c.pairs[a][1] # c.pairs[b][1]

\* C7: for a well-formed attribute-style index line with N key/value pairs
\* after the two positional fields, parse_index_file returns exactly
\* BATCHKLASSE, BATCHCONTENT and those N keys mapped to their values: no key is
\* missing, none is added, and the result is not empty.
C7_ParseRoundTrip ==
    (Returned("parse_index_file") /\ AttributeStyle(call)) =>
        /\ DOMAIN ret # {}
        /\ ret = ExpectedRecord(call.pairs)

\* the six keys of the record of test_is_expected_format
TestColumns ==
    {S_BATCHKLASSE, S_BATCHCONTENT, T_BatchID, T_DocumentID, S_docType, S_pageCount}

\* C8: is_expected_format accepts a record with the six keys BATCHKLASSE,
\* BATCHCONTENT, {BatchID}, {DocumentID}, docType, {pageCount} and rejects the
\* record obtained by removing any one of them.
C8_SchemaGate ==
    Returned("is_expected_format") =>
        /\ DOMAIN call.data = TestColumns => ret = TRUE
        /\ (\E k \in TestColumns : DOMAIN call.data = TestColumns \ {k}) => ret = FALSE

\* c and d are the same letter, in either case
SameLetter(c, d) ==
    \/ c = d
    \/ \E k \in DOMAIN UpperLetters : {c, d} = {UpperLetters[k], LowerLetters[k]}

\* the entry occurs in the text at some position, letter case ignored
OccursIgnoringCase(entry, text) ==
    \E p \in 0..(Len(text) - Len(entry)) :
        \A k \in 1..Len(entry) : SameLetter(text[p + k], entry[k])

C9_Result ==
    Returned("is_blacklisted") =>
        (ret <=> \E entry \in call.blacklist_emails : OccursIgnoringCase(entry, call.text))

\* C9: is_blacklisted(text, blacklist) returns true exactly when at least one
\* blacklist entry, compared case-insensitively, occurs as a substring of the
\* full text, and false otherwise (false for an empty blacklist); the call
\* changes neither argument.
C9_IsBlacklisted == [](C9_Result) /\ [][call' = call]_vars

\* a hit that needs the case folding of both sides: an entry with an upper-case
\* letter found in a text that spells it differently
C9_Witness ==
    /\ Returned("is_blacklisted")
    /\ ret = TRUE
    /\ \A entry \in call.blacklist_emails : ~Contains(call.text, entry)
    /\ \E entry \in call.blacklist_emails : entry # Lower(entry)

\* the call is one of OddParseCalls
OddFields == "unmatched" \in DOMAIN call

\* C27: with an odd number of fields between the two positional fields and the
\* trailing field, parse_index_file succeeds, the last key, which has no value,
\* is stored with the empty string, and no key has the trailing field as its
\* value.
C27_UnmatchedKeyEmpty ==
    (Returned("parse_index_file") /\ OddFields) =>
        /\ ret # EmptyDict
        /\ call.unmatched \in DOMAIN ret
        /\ ret[call.unmatched] = <<>>
        /\ \A key \in DOMAIN ret :
               call.trailing[1] # <<>> => ret[key] # call.trailing[1]

\* the keys of the pairs of the line of the call
KeysOfCall == {call.pairs[j][1] : j \in DOMAIN call.pairs}

\* the last two segments of P_TrailingPath, the last without its extension
T_Batch_002 == <<"B", "a", "t", "c", "h", "_", "0", "0", "2">>

T_Doc_00007 == <<"D", "o", "c", "_", "0", "0", "0", "0", "7">>

\* C28: with a trailing field that is a path and no batch-id key among the
\* pairs, the batch id is the second-to-last segment of the path and the
\* document id the last segment without extension; with the batch-id and
\* document-id keys among the pairs their values are kept and the parse
\* succeeds whatever the trailing field holds; an empty trailing field gives
\* no key and no value.
C28_IdsFromTrailingField ==
    (Returned("parse_index_file") /\ ~OddFields /\ call.index_file.readable
         /\ call.trailing # <<>>) =>
        LET trailing == call.trailing[1]
        IN  /\ (trailing = P_TrailingPath /\ S_BatchIDKey \notin KeysOfCall) =>
                   /\ ret # EmptyDict
                   /\ ret[S_BatchIDKey] = T_Batch_002
                   /\ ret[S_DocumentIDKey] = T_Doc_00007
            /\ {S_BatchIDKey, S_DocumentIDKey} \subseteq KeysOfCall =>
                   /\ ret # EmptyDict
                   /\ ret = ExpectedRecord(call.pairs)
            /\ (trailing = <<>> /\ ret # EmptyDict) =>
                   DOMAIN ret = {S_BATCHKLASSE, S_BATCHCONTENT} \cup KeysOfCall

-----------------------------------------------------------------------------
(* Properties of a run of main (Spec, FairSpec).                           *)

Saved(i) == task[i].state = "saved"

\* the file of chunk i, once written
Segment(i) == final_dataframes[pickle_file(i)]

\* the ways an iteration ends that skip the document
SkipOutcomes == {"format", "exception"}

\* the positions of chunk i that ended in one of the outcomes
Ended(i, outcomes) == {k \in DOMAIN task[i].outcomes : task[i].outcomes[k] \in outcomes}

\* the original wording of C1: an exception raised at any stage (parse, text
\* read, blacklist check, redaction) causes that document to be skipped, and
\* the chunk is processed to its end and written.
C1_RaisingDocumentSkipped ==
    \A i \in ChunkNumbers : Saved(i) =>
        /\ Len(task[i].outcomes) = Len(ChunkOf(i))
        /\ pickle_file(i) \in DOMAIN final_dataframes
        /\ \A k \in DOMAIN task[i].raised :
               task[i].raised[k] # "none" => task[i].outcomes[k] \in SkipOutcomes

\* C1 (amended): an exception raised while processing one document of a chunk
\* affects no other document: every document of the chunk is processed with
\* the outcome it has on its own and the segment is written.  The document
\* itself is skipped when the parse, the blacklist check or a redaction step
\* raises; when reading the text file raises, read_text_file returns the empty
\* text and the document is kept.
C1_ExceptionContained ==
    \A i \in ChunkNumbers : Saved(i) =>
        /\ Len(task[i].outcomes) = Len(ChunkOf(i))
        /\ pickle_file(i) \in DOMAIN final_dataframes
        /\ Len(Segment(i)) = Cardinality(Ended(i, {"appended"}))
        /\ \A k \in DOMAIN task[i].outcomes :
               /\ task[i].outcomes[k] = processed[ChunkOf(i)[k]].outcome
               /\ task[i].raised[k] \notin {"none", "read_text_file"}
                      => task[i].outcomes[k] \in SkipOutcomes
               /\ task[i].raised[k] = "read_text_file"
                      => task[i].outcomes[k] = "appended"

\* a written chunk in which a redaction step raised on the first document and
\* the second document is in the segment
C1_Witness ==
    \E i \in ChunkNumbers :
        /\ Saved(i)
        /\ Len(ChunkOf(i)) = 2
        /\ task[i].raised[1] \in {"remove_common_phrases", "anonymize_text"}
        /\ task[i].outcomes = <<"exception", "appended">>
        /\ Len(Segment(i)) = 1

C2_Safety ==
    \* no file is written twice, so no two chunks write the same file
    /\ \A a, b \in DOMAIN writes : a # b => writes[a].file # writes[b].file
    \* a chunk is persisted at most once, under the name of its index
    /\ \A a, b \in DOMAIN writes : a # b => writes[a].chunk_number # writes[b].chunk_number
    /\ \A a \in DOMAIN writes : writes[a].file = pickle_file(writes[a].chunk_number)
    \* every document is handled once: the loop never goes back
    /\ \A i \in ChunkNumbers : Len(task[i].outcomes) = task[i].pos
                                /\ task[i].pos <= Len(ChunkOf(i))
    \* when main returns each chunk has its segment, an empty one included
    /\ pc = "done" =>
           /\ Len(writes) = Len(chunks_list)
           /\ Cardinality(DOMAIN final_dataframes) = Len(chunks_list)
           /\ \A i \in ChunkNumbers :
                  /\ pickle_file(i) \in DOMAIN final_dataframes
                  /\ Len(task[i].outcomes) = Len(ChunkOf(i))
                  /\ \E a \in DOMAIN writes : writes[a].chunk_number = i

\* C2: every chunk of the partition built by main is processed exactly once and
\* eventually persisted as exactly one segment file named by its chunk index,
\* also when every document of the chunk is skipped or blacklisted; two distinct
\* chunks never write the same file, in the sequential loop and under every
\* interleaving of the pool workers.
C2_EveryChunkOneSegment == [](C2_Safety) /\ <>(pc = "done")

\* a pool run of at least two chunks has returned, one segment being empty
C2_Witness ==
    /\ pc = "done"
    /\ multiprocessing
    /\ Len(chunks_list) >= 2
    /\ \E i \in ChunkNumbers : Segment(i) = <<>> /\ Len(ChunkOf(i)) >= 1
    /\ \E i \in ChunkNumbers : Segment(i) # <<>>

\* C4: every row of every persisted segment contains the six required keys; a
\* record that fails the format check, the empty record of a failed parse and a
\* partially built record never reach a segment.
C4_RowsHaveRequiredKeys ==
    \A f \in DOMAIN final_dataframes :
        \A k \in DOMAIN final_dataframes[f] :
            expected_columns \subseteq DOMAIN final_dataframes[f][k]

\* a written chunk that held a document without docType or with a failed parse
\* next to a document that is in the segment
C4_Witness ==
    \E i \in ChunkNumbers :
        /\ Saved(i)
        /\ Ended(i, {"format"}) # {}
        /\ Segment(i) # <<>>

\* C5: the rows of a chunk's segment are exactly the documents of the chunk
\* that were neither skipped nor blacklisted, one row each, in the order of the
\* path list; rows + blacklisted + skipped = number of paths of the chunk.
C5_SegmentRows ==
    \A i \in ChunkNumbers : Saved(i) =>
        /\ Segment(i) = SurvivorRows(ChunkOf(i))
        /\ Len(Segment(i)) + Cardinality(Ended(i, {"blacklisted"}))
               + Cardinality(Ended(i, SkipOutcomes)) = Len(ChunkOf(i))
        /\ \A k \in DOMAIN task[i].outcomes :
               task[i].outcomes[k] = "appended" =>
                   Segment(i)[Cardinality({m \in 1..k : task[i].outcomes[m] = "appended"})]
                       = processed[ChunkOf(i)[k]].row

\* a written chunk of two documents with different rows, both in the segment
C5_Witness ==
    \E i \in ChunkNumbers :
        /\ Saved(i)
        /\ Len(Segment(i)) = 2
        /\ Segment(i)[1] # Segment(i)[2]

\* C6: a chunk that holds the one document of test_process_index_files (the
\* attribute-style test line, a text file without blacklist entry) is written
\* as a segment with exactly one row, which has the six schema keys and text.
C6_TestDocumentOneRow ==
    (pc = "done" /\ index_files = <<"test">>) =>
        /\ pickle_file(0) \in DOMAIN final_dataframes
        /\ Len(Segment(0)) = 1
        /\ (expected_columns \cup {S_text}) \subseteq DOMAIN Segment(0)[1]

\* the paths whose text file is read and holds a blacklist entry
PathsWithEntry ==
    {path \in Paths :
        /\ Documents[path].text_file.exists
        /\ Documents[path].text_file.readable
        /\ \E entry \in blacklist_emails :
               OccursIgnoringCase(entry, Documents[path].text_file.content)}

ContainsEntry(path) == path \in PathsWithEntry

\* C10: a document whose text contains a blacklist entry contributes no row;
\* the drop counter of a chunk equals the number of its documents whose text hit
\* the blacklist (when the chunk completes, and at every iteration before); it
\* is never incremented for a skipped document.
C10_DropCounter ==
    \A i \in ChunkNumbers :
        /\ task[i].count_blacklist =
               Cardinality({k \in DOMAIN task[i].outcomes :
                               /\ ContainsEntry(ChunkOf(i)[k])
                               /\ task[i].outcomes[k] \notin SkipOutcomes})
        /\ \A k \in DOMAIN task[i].outcomes :
               ContainsEntry(ChunkOf(i)[k]) => task[i].outcomes[k] # "appended"
        /\ Len(task[i].data_list) = Cardinality(Ended(i, {"appended"}))
        /\ Saved(i) => Segment(i) = task[i].data_list

\* a written chunk with one blacklisted document and one document that was
\* skipped although its text holds a blacklist entry
C10_Witness ==
    \E i \in ChunkNumbers :
        /\ Saved(i)
        /\ task[i].count_blacklist = 1
        /\ \E k \in DOMAIN task[i].outcomes :
               ContainsEntry(ChunkOf(i)[k]) /\ task[i].outcomes[k] = "format"
        /\ Segment(i) = <<>>

\* the calls of the iteration on position k of chunk i, with their arguments
CallsOf(i, k) == processed[ChunkOf(i)[k]].calls

\* the order of the steps of one document
StepOrder ==
    <<"parse_index_file", "is_expected_format", "read_text_file", "is_blacklisted",
      "remove_common_phrases", "pii_substitution", "entity_redaction">>

RedactionSteps == {"remove_common_phrases", "pii_substitution", "entity_redaction"}

\* the positions of the names of the calls in StepOrder
StepNumber(fn) == CHOOSE n \in DOMAIN StepOrder : StepOrder[n] = fn

\* C11: for every document the blacklist check is evaluated on the raw text as
\* read from the text file, before any redaction step; no redaction step runs
\* on a blacklisted document; the steps of a document run in the order parse,
\* blacklist check, phrase redaction, PII patterns, entity redaction.
C11_BlacklistOnRawText ==
    \A i \in ChunkNumbers : \A k \in DOMAIN task[i].outcomes :
        LET calls == CallsOf(i, k)
            raw == read_text_file(Documents[ChunkOf(i)[k]].text_file)
        IN  /\ \A a, b \in DOMAIN calls :
                   a < b => StepNumber(calls[a].fn) < StepNumber(calls[b].fn)
            /\ \A a \in DOMAIN calls : calls[a].fn = "is_blacklisted" => calls[a].arg = raw
            /\ \A a \in DOMAIN calls :
                   calls[a].fn \in RedactionSteps =>
                       /\ \E b \in 1..(a - 1) : calls[b].fn = "is_blacklisted"
                       /\ task[i].outcomes[k] # "blacklisted"
            /\ task[i].outcomes[k] = "blacklisted" =>
                   calls[Len(calls)].fn = "is_blacklisted"
            /\ task[i].outcomes[k] = "appended" /\ Documents[ChunkOf(i)[k]].text_file.exists =>
                   [a \in DOMAIN calls |-> calls[a].fn] = SubSeq(StepOrder, 1, Len(StepOrder))

\* a written chunk with a blacklisted document that the check would not have
\* caught on the redacted text, and a document that went through every step
C11_Witness ==
    \E i \in ChunkNumbers :
        /\ Saved(i)
        /\ \E k \in DOMAIN task[i].outcomes :
               LET raw == read_text_file(Documents[ChunkOf(i)[k]].text_file)
               IN  /\ task[i].outcomes[k] = "blacklisted"
                   /\ ~is_blacklisted(anonymize_text(remove_common_phrases(raw)),
                                      blacklist_emails)
        /\ \E k \in DOMAIN task[i].outcomes :
               /\ task[i].outcomes[k] = "appended"
               /\ Len(CallsOf(i, k)) = Len(StepOrder)

\* the number of rows appended in chunk i up to position k
RowsUpTo(i, k) == Cardinality({m \in 1..k : task[i].outcomes[m] = "appended"})

\* the keys of the pairs of a line: the items at the even offsets from 2 on,
\* the last item left out
KeysOfItems(items) == {items[j] : j \in {m \in 3..(Len(items) - 1) : m % 2 = 1}}

\* the paths whose index file makes the body of parse_index_file raise: open()
\* fails, there is no second item, the trailing item has no separator to take
\* the batch id from, or it is empty and no pair gives the batch id
PathsFailingParse ==
    {path \in Paths :
        LET f == Documents[path].index_file
            items == ItemsOf(f.content)
            last == items[Len(items)]
        IN  \/ ~f.readable
            \/ Len(items) < 2
            \/ last # <<>> /\ ~Contains(last, <<"\\">>)
            \/ last = <<>> /\ S_BatchIDKey \notin KeysOfItems(items)}

\* the paths on whose index file parse_index_file returns the empty record
PathsParsedEmpty ==
    {path \in Paths : parse_index_file(Documents[path].index_file) = EmptyDict}

\* what the iteration on position k of chunk i does when the document is
\* taken on its own
OnItsOwn(i, k) == processed[ChunkOf(i)[k]]

\* C23: parse_index_file does not raise: on an unreadable file or on content
\* it cannot parse it returns the empty record, which fails the format check,
\* so the document is skipped by the continue of the format check (no row, no
\* except clause of the loop), and the chunk goes on: the documents behind it
\* are processed as on their own and the segment is written.
C23_ParseFailureSkipsDocument ==
    \A i \in ChunkNumbers : \A k \in DOMAIN task[i].outcomes :
        LET path == ChunkOf(i)[k]
        IN  path \in PathsFailingParse =>
                /\ path \in PathsParsedEmpty
                /\ ~is_expected_format(EmptyDict)
                /\ task[i].raised[k] = "parse_index_file"
                /\ task[i].outcomes[k] = "format"
                /\ [a \in DOMAIN CallsOf(i, k) |-> CallsOf(i, k)[a].fn]
                       = <<"parse_index_file", "is_expected_format">>
                /\ Len(task[i].data_list) = RowsUpTo(i, Len(task[i].outcomes))
                /\ \A m \in DOMAIN task[i].outcomes :
                       task[i].outcomes[m] = OnItsOwn(i, m).outcome
                /\ Saved(i) =>
                       /\ Len(task[i].outcomes) = Len(ChunkOf(i))
                       /\ Segment(i) = SurvivorRows(ChunkOf(i))

\* a written chunk whose first document has an index file that cannot be
\* parsed (unreadable in one run, the line of the tests in another) and whose
\* second document gives the one row of the segment
C23_Witness ==
    \E i \in ChunkNumbers :
        /\ Saved(i)
        /\ Len(ChunkOf(i)) = 2
        /\ ChunkOf(i)[1] \in PathsFailingParse
        /\ ~Documents[ChunkOf(i)[1]].index_file.readable
        /\ task[i].outcomes = <<"format", "appended">>
        /\ Len(Segment(i)) = 1

\* the paths with a record that passes the format check and no paired text file
PathsWithoutText ==
    {path \in Paths :
        /\ ~Documents[path].text_file.exists
        /\ is_expected_format(parse_index_file(Documents[path].index_file))}

\* the row of each such path: its parsed record with the empty text
RowsWithoutText ==
    {<<path, Put(parse_index_file(Documents[path].index_file), S_text, <<>>)>> :
        path \in PathsWithoutText}

\* C22: a document with a valid index record and no paired text file is kept:
\* its row, the parsed record with text "", is appended and is in the segment;
\* it is counted neither as blacklisted nor as skipped, and neither the read,
\* the blacklist check nor a redaction step is called for it.
C22_NoTextFileKept ==
    \A i \in ChunkNumbers : \A k \in DOMAIN task[i].outcomes :
        LET path == ChunkOf(i)[k]
            n == RowsUpTo(i, k)
        IN  path \in PathsWithoutText =>
                /\ task[i].outcomes[k] = "appended"
                /\ task[i].raised[k] = "none"
                /\ <<path, task[i].data_list[n]>> \in RowsWithoutText
                /\ task[i].data_list[n][S_text] = <<>>
                /\ task[i].count_blacklist = Cardinality(Ended(i, {"blacklisted"}))
                /\ \A a \in DOMAIN CallsOf(i, k) :
                       CallsOf(i, k)[a].fn \notin
                           RedactionSteps \cup {"read_text_file", "is_blacklisted"}
                /\ Saved(i) => Segment(i)[n] = task[i].data_list[n]

\* a written chunk of a blacklisted document and a document without text file:
\* one row with the empty text, one drop counted
C22_Witness ==
    \E i \in ChunkNumbers :
        /\ Saved(i)
        /\ Len(ChunkOf(i)) = 2
        /\ task[i].outcomes[1] = "blacklisted"
        /\ ChunkOf(i)[2] \in PathsWithoutText
        /\ task[i].count_blacklist = 1
        /\ Len(Segment(i)) = 1
        /\ Segment(i)[1][S_text] = <<>>

\* the keys of a row that are neither a key of the parsed index record of its
\* document nor the text
KeysBesideRecord(row, path) ==
    DOMAIN row \ (DOMAIN parse_index_file(Documents[path].index_file) \cup {S_text})

\* C26: every row of a written segment carries a blacklist-drop indicator, a
\* field beside the fields of the index record and the text, and the
\* indicator is false for the document of the row, which was retained.
C26_RowsCarryDropIndicator ==
    \A i \in ChunkNumbers : Saved(i) =>
        \A k \in DOMAIN task[i].outcomes :
            task[i].outcomes[k] = "appended" =>
                LET row == Segment(i)[RowsUpTo(i, k)]
                IN  \E key \in KeysBesideRecord(row, ChunkOf(i)[k]) : row[key] = FALSE

-----------------------------------------------------------------------------
(* Runs with failing writes and leftover segments.                         *)

\* the partition main builds from its inputs
PartitionOfRun == chunks(index_files, chunk_size)

\* final_dataframes when every call of process_index_files of the run was made
\* and returned or raised: the segment of a chunk whose write went through,
\* the cut file of a chunk whose write raised, and the files left from before
SegmentsOfRun ==
    LET n == Len(PartitionOfRun)
        made == {i \in 0..(n - 1) : write_fault[i] # "open"}
    IN  [f \in DOMAIN leftover \cup {pickle_file(i) : i \in made} |->
            LET i == f[3]
            IN  IF i < n /\ write_fault[i] = "none" THEN SurvivorRows(PartitionOfRun[i + 1])
                ELSE IF i < n /\ write_fault[i] = "write" THEN TruncatedSegment
                ELSE leftover[f]]

\* main is over: it returned, or an exception left it
Over == pc \in {"done", "raised"}

\* C12: the segment files and their rows after a run are the same in the loop
\* of main and in the pool, also when the processing of a chunk raises outside
\* the try of the loop body: they are the files of the calls of all chunks.
C12_SameSegmentsInBothModes == Over => final_dataframes = SegmentsOfRun

\* C13: a rerun on the same partition and inputs overwrites every segment by
\* its chunk number: when it is over, each segment is the one a clean run
\* writes, whatever file (the right one, a stale one, none) was there before.
C13_RerunOverwrites ==
    pc = "done" =>
        \A i \in ChunkNumbers :
            /\ pickle_file(i) \in DOMAIN final_dataframes
            /\ final_dataframes[pickle_file(i)] = SurvivorRows(ChunkOf(i))

\* a finished rerun of two chunks over a stale first segment and a missing
\* second one, the first chunk with a row
C13_Witness ==
    /\ pc = "done"
    /\ Len(chunks_list) = 2
    /\ pickle_file(0) \in DOMAIN leftover
    /\ leftover[pickle_file(0)] = StaleSegment
    /\ pickle_file(1) \notin DOMAIN leftover
    /\ SurvivorRows(ChunkOf(0)) # <<>>

\* C14: when the write of one chunk fails, the segments of all other chunks of
\* the run are written with their rows, in the loop of main and in the pool.
C14_OtherChunksWritten ==
    Over =>
        \A i \in 0..(Len(PartitionOfRun) - 1) :
            write_fault[i] = "none" =>
                /\ pickle_file(i) \in DOMAIN final_dataframes
                /\ final_dataframes[pickle_file(i)] = SurvivorRows(PartitionOfRun[i + 1])

\* C15: process_index_files changes neither the blacklist, the phrases, the
\* patterns nor the path list of a chunk, and a written segment holds the rows
\* of its own chunk under that configuration, whatever the other calls do.
C15_NoSharedMutableState ==
    /\ [][/\ shared' = shared
          /\ pc = "dispatch" => chunks_list' = chunks_list]_vars
    /\ [](\A i \in ChunkNumbers :
              Saved(i) => /\ shared = SharedConfig
                          /\ Segment(i) = SurvivorRows(ChunkOf(i)))

\* the pool wrote the segment of chunk 1 before that of chunk 0, both with rows
C15_Witness ==
    /\ multiprocessing
    /\ Len(writes) = 2
    /\ writes[1].chunk_number = 1
    /\ writes[2].chunk_number = 0
    /\ Segment(0) # <<>>
    /\ Segment(1) # <<>>

\* C30: when a run of main has returned, final_dataframes holds one segment
\* for each chunk of the run and no other file: no segment of an earlier run
\* with a chunk number the run did not write is left.
C30_OnlySegmentsOfRun ==
    pc = "done" =>
        /\ DOMAIN final_dataframes = {pickle_file(i) : i \in ChunkNumbers}
        /\ \A i \in ChunkNumbers :
               final_dataframes[pickle_file(i)] = SurvivorRows(ChunkOf(i))

-----------------------------------------------------------------------------
(* Properties of the redaction functions (SpecText).                       *)

\* the literal occurs in s
Occurs(literal, s) ==
    \E p \in 0..(Len(s) - Len(literal)) : SubSeq(s, p + 1, p + Len(literal)) = literal

\* the character spans of the token spans the matcher found and filter_spans kept
MatchedSpans(text) ==
    LET doc == nlp(text)
        spans == SpansInOrder(filter_spans(matcher(doc)))
    IN  [j \in DOMAIN spans |->
            <<doc[spans[j][1] + 1].idx,
              doc[spans[j][2]].idx + Len(doc[spans[j][2]].text)>>]

\* C16: remove_common_phrases replaces exactly the matched spans with
\* [REDACTED_PHRASE] and leaves every character outside them unchanged, also an
\* occurrence of the same characters that was not matched as a token sequence.
C16_ExactlyMatchedSpans ==
    Returned("remove_common_phrases") =>
        ret = replace_spans(call.text, MatchedSpans(call.text), R_REDACTED_PHRASE, 0)

\* addresses that are valid by the syntax of RFC 5322
ValidEmails == {E_MaxMustermann, E_PlusLocal}

\* the text after the last pass
PiiOutput == ret[Len(ret)].text

\* C17: for a text that holds a syntactically valid email address, the output
\* of the substitution passes holds no literal copy of the address and holds
\* the sentinel built from the label of the email pattern.
C17_EmailsRedacted ==
    Returned("pii_substitution") =>
        \A e \in ValidEmails :
            Occurs(e, call.text) =>
                /\ ~Occurs(e, PiiOutput)
                /\ Occurs(Sentinel(N_EMAIL_PATTERN), PiiOutput)

\* the sentinels of the passes before the phone pass
EarlierSentinels == {R_REDACTED_PHRASE, Sentinel(N_EMAIL_PATTERN)}

Range(f) == {f[k] : k \in DOMAIN f}

\* C18: the passes run in one order on every call, the email pattern before the
\* phone pattern, each on the output of the one before, and no match of the
\* phone pattern touches [REDACTED_PHRASE] or the email sentinel.
C18_EmailBeforePhone ==
    Returned("pii_substitution") =>
        /\ [k \in DOMAIN ret |-> ret[k].pattern_name] = <<N_EMAIL_PATTERN, N_PHONE_PATTERN>>
        /\ ret[1].before = call.text
        /\ ret[2].before = ret[1].text
        /\ \A z \in EarlierSentinels :
               /\ \A m \in Range(finditer(phone_pattern, ret[2].before)),
                     o \in Range(literal_spans(ret[2].before, z, 0)) :
                         m[2] <= o[1] \/ o[2] <= m[1]
               /\ Len(literal_spans(ret[2].text, z, 0))
                      = Len(literal_spans(ret[2].before, z, 0))

\* a text with a phrase sentinel, an address and a phone number: the phone pass
\* changes the text that holds both sentinels
C18_Witness ==
    /\ Returned("pii_substitution")
    /\ Occurs(E_MaxMustermann, call.text)
    /\ \A z \in EarlierSentinels : Occurs(z, ret[2].before)
    /\ ret[2].text # ret[2].before
    /\ Occurs(Sentinel(N_PHONE_PATTERN), ret[2].text)

\* the doc of the call and the kinds that are redacted
DocOfCall == nlp(pii_substitution(call.text))

Redacted(j) == call.ents[j] \in {"PER", "ORG", "LOC"}

IsWord(t) == t # <<>> /\ \A k \in DOMAIN t : t[k] \in WordChars

X_MaxMustermann == <<"M", "a", "x", " ", "M", "u", "s", "t", "e", "r", "m", "a", "n", "n">>

\* C19: every token the recognizer labels PER, ORG or LOC is emitted as
\* [REDACTED] and every other token as it is; so a name that is labelled
\* wherever it stands is not in the output ("Max Mustermann" in the test).
C19_EntityTokensRedacted ==
    Returned("anonymize_text") =>
        LET doc == DocOfCall
        IN  /\ ret = Concat([j \in DOMAIN doc |->
                                IF Redacted(j) THEN R_REDACTED ELSE text_with_ws(doc[j])])
            /\ \A j \in DOMAIN doc :
                   (/\ Redacted(j)
                    /\ IsWord(doc[j].text)
                    /\ ~Occurs(doc[j].text, R_REDACTED)
                    /\ \A m \in DOMAIN doc :
                           Occurs(doc[j].text, doc[m].text) => Redacted(m))
                       => ~Occurs(doc[j].text, ret)
            /\ call.text = X_TestAnonymize => ~Occurs(X_MaxMustermann, ret)

\* the text of the test: the name is labelled and gone, the words around it stay
C19_Witness ==
    /\ Returned("anonymize_text")
    /\ call.text = X_TestAnonymize
    /\ Occurs(X_MaxMustermann, call.text)
    /\ ~Occurs(X_MaxMustermann, ret)
    /\ Occurs(R_REDACTED, ret)
    /\ Occurs(<<"M", "e", "i", "n", " ", "N", "a", "m", "e", " ", "i", "s", "t", " ">>, ret)

\* C20: outside the redacted tokens the output is the input: only the text of
\* a redacted token is replaced, and the whitespace and punctuation, also the
\* whitespace after a redacted token, stand unchanged and in order.
C20_StructurePreserved ==
    Returned("anonymize_text") =>
        LET doc == DocOfCall
        IN  ret = Concat([j \in DOMAIN doc |->
                             IF Redacted(j) THEN R_REDACTED \o doc[j].whitespace_
                             ELSE text_with_ws(doc[j])])

\* the recognizer labels no token of the call as person, organization or location
NothingRecognized == \A j \in DOMAIN DocOfCall : ~Redacted(j)

\* C21 as stated: for a text in which the recognizer labels no token PER, ORG
\* or LOC, the output of anonymize_text equals its input exactly.
C21_IdentityWithoutEntities ==
    (Returned("anonymize_text") /\ NothingRecognized) => ret = call.text

\* no pattern of regex_substitutions matches the text
NoPiiMatch(text) ==
    \A k \in DOMAIN regex_substitutions :
        finditer(regex_substitutions[k].pattern, text) = <<>>

\* C21 amended: for a text in which the recognizer labels no token PER, ORG or
\* LOC, the output of anonymize_text is the text after the substitutions of
\* regex_substitutions, whitespace included; it equals the input exactly when
\* in addition no email and no phone pattern matches the input.
C21_IdentityAfterSubstitutions ==
    (Returned("anonymize_text") /\ NothingRecognized) =>
        /\ ret = pii_substitution(call.text)
        /\ NoPiiMatch(call.text) => ret = call.text

\* two calls without entities: a text with whitespace_ and punctuation that comes
\* back as it is, and a text with an address that comes back substituted
C21_Witness ==
    /\ Returned("anonymize_text")
    /\ NothingRecognized
    /\ \/ /\ call.text = <<"M", "a", "x", " ", ".">>
          /\ ret = call.text
       \/ /\ call.text = E_MaxMustermann \o <<" ">> \o X_Phone
          /\ ret # call.text
          /\ ret = Sentinel(N_EMAIL_PATTERN) \o <<" ">> \o Sentinel(N_PHONE_PATTERN)

-----------------------------------------------------------------------------
(* Properties of unzip_files (SpecUnzip).                                  *)

\* the archives whose iteration is over in the call that is running or ended
Visited == {unzip.zip_files[j] : j \in 1..unzip.pos}

\* the archives of zip_dir
Archives == glob_zip(zip_dir)

\* the directory of the archive holds every member of it
Extracted(zip_path) ==
    /\ extract_dir(zip_path) \in DOMAIN unzipped_files
    /\ MemberSet \subseteq unzipped_files[extract_dir(zip_path)]

\* C24: without force an archive whose directory exists is skipped without
\* error and its directory is left as it is; a call without force after a call
\* that returned extracts nothing and leaves the tree as it was; with force
\* every archive is extracted again.
C24_UnzipIdempotent ==
    /\ ~unzip.force =>
           \A z \in Visited :
               extract_dir(z) \in DOMAIN unzip.before =>
                   /\ z \in unzip.skipped
                   /\ z \notin unzip.extracted \cup unzip.errors
                   /\ unzipped_files[extract_dir(z)] = unzip.before[extract_dir(z)]
    /\ (unzip.state = "returned" /\ ~unzip.force /\ unzip.prev = "returned") =>
           /\ unzipped_files = unzip.before
           /\ unzip.extracted = {}
           /\ unzip.errors = {}
           /\ unzip.skipped = Archives
    /\ unzip.force =>
           /\ unzip.skipped = {}
           /\ \A z \in Visited :
                   unzip.given[z] = "good" => z \in unzip.extracted /\ Extracted(z)

\* the second of two calls without force has returned: two archives were
\* extracted by the first and are skipped by the second
C24_Witness ==
    /\ unzip.state = "returned"
    /\ unzip.runs = 2
    /\ ~unzip.force
    /\ unzip.prev = "returned"
    /\ Cardinality(unzip.skipped) = 2
    /\ \A z \in Archives : Extracted(z)
    /\ unzipped_files = unzip.before

\* C25: an archive that is corrupt or cannot be read does not end the call of
\* unzip_files: the call returns, the archive is logged as an error, and every
\* good archive that is not skipped is extracted, wherever the bad archive
\* stands in zip_files.
C25_BadArchiveSkipped ==
    /\ unzip.state # "raised"
    /\ unzip.state = "returned" =>
           \A z \in Range(unzip.zip_files) :
               z \notin unzip.skipped =>
                   IF unzip.given[z] = "good"
                   THEN z \in unzip.extracted /\ Extracted(z)
                   ELSE z \in unzip.errors

\* C29: after a call that failed to extract an archive (a corrupt archive, a
\* call ended during the extraction), a later call without force extracts
\* the archive once it can be read: when a call without force has returned,
\* every good archive of zip_dir is extracted.
C29_FailedExtractionRetried ==
    (unzip.state = "returned" /\ ~unzip.force) =>
        \A z \in Range(unzip.zip_files) : unzip.given[z] = "good" => Extracted(z)

=============================================================================
